---- MODULE Spec2Model ----
(***************************************************************************)
(* Model of the Convex backend of the task manager: the task endpoints     *)
(* (convex/endpoints/tasks.ts), the assistant endpoints (threads, messages *)
(* and the sendMessage action), the validation helpers, the shared         *)
(* constants and the rate limiter configuration.                           *)
(*                                                                         *)
(* Every query and mutation is one transaction of the platform and is one  *)
(* action here.  sendMessage is an action of the platform: each runQuery / *)
(* runMutation it makes is its own transaction, so it is modelled as a     *)
(* process with one step per transaction.                                  *)
(*                                                                         *)
(* Times are in seconds (the source's millisecond values divided by 1000). *)
(***************************************************************************)
EXTENDS Integers, Sequences, FiniteSets, TLC

VARIABLES
    now,            \* Date.now(), in seconds
    buckets,        \* rate limiter state: user -> bucket name -> value (1 token = PERIOD units)
    rounded,        \* user -> the buckets whose stored value is the rounded result of a refill
    tasks,          \* tasks table: id -> document
    taskBacklog,    \* user -> number of further (pending) tasks of that user no modelled call addresses
    nextTaskId,     \* next fresh task id
    threads,        \* threads table: id -> document
    threadBacklog,  \* user -> number of further threads of that user no modelled call addresses
    nextThreadId,   \* next fresh thread id
    messages,       \* messages table, in creation order: sequence of documents
    msgBacklog,     \* thread id -> number of older messages of the thread kept as a count
    nextMsgId,      \* next fresh message id
    sends,          \* the sendMessage calls in flight: slot -> local variables and position
    deleteTrace,    \* the store after each write of the last deleteThread, in order
    res             \* the last finished call: operation, caller, arguments, outcome

vars == <<now, buckets, rounded, tasks, taskBacklog, nextTaskId, threads, threadBacklog,
          nextThreadId, messages, msgBacklog, nextMsgId, sends, deleteTrace, res>>

limiterVars == <<buckets, rounded>>
taskVars == <<tasks, taskBacklog, nextTaskId>>
threadVars == <<threads, threadBacklog, nextThreadId>>
messageVars == <<messages, msgBacklog, nextMsgId>>

-----------------------------------------------------------------------------
(* Optional values: undefined is the empty set, a defined value v is {v}.  *)

Undefined == {}
Def(v) == {v}
Val(o) == CHOOSE v \in o : TRUE

Min(a, b) == IF a <= b THEN a ELSE b
CeilDiv(a, b) == (a + b - 1) \div b

-----------------------------------------------------------------------------
(* Strings are run-length encoded: a sequence of runs [c, n], the          *)
(* character c repeated n >= 1 times, adjacent runs of different           *)
(* characters.                                                             *)

Run(c, n) == <<[c |-> c, n |-> n]>>

RECURSIVE StrLen(_)
StrLen(s) == IF s = <<>> THEN 0 ELSE Head(s).n + StrLen(Tail(s))

\* the characters matched by \s and removed by trim(): the ASCII ones, then
\* U+000B, U+00A0, U+1680 and U+FEFF written as themselves, then the ones
\* from U+2000 on, which a string cannot hold, written by their code point
WhitespaceChars ==
    { " ", "\t", "\n", "\r", "\f",
      "",
      " ",
      " ",
      "﻿",
      "U+2000", "U+2001", "U+2002", "U+2003", "U+2004", "U+2005", "U+2006", "U+2007",
      "U+2008", "U+2009", "U+200A", "U+2028", "U+2029", "U+202F", "U+205F", "U+3000" }

IsWhitespace(c) == c \in WhitespaceChars

RECURSIVE TrimStart(_)
TrimStart(s) ==
    IF s # <<>> /\ IsWhitespace(Head(s).c) THEN TrimStart(Tail(s)) ELSE s

RECURSIVE TrimEnd(_)
TrimEnd(s) ==
    IF s # <<>> /\ IsWhitespace(s[Len(s)].c)
    THEN TrimEnd(SubSeq(s, 1, Len(s) - 1))
    ELSE s

\* replace(/\s+/g, " "): every maximal run of whitespace becomes one space
RECURSIVE CollapseWhitespace(_, _)
CollapseWhitespace(s, inWs) ==
    IF s = <<>> THEN <<>>
    ELSE IF IsWhitespace(Head(s).c)
         THEN (IF inWs THEN <<>> ELSE Run(" ", 1)) \o CollapseWhitespace(Tail(s), TRUE)
         ELSE <<Head(s)>> \o CollapseWhitespace(Tail(s), FALSE)

\* the whitespace runs collapsed, the ends left as they are
sanitizeInputNoTrim(input) == CollapseWhitespace(input, FALSE)

sanitizeInput(input) == CollapseWhitespace(TrimEnd(TrimStart(input)), FALSE)

-----------------------------------------------------------------------------
(* helpers/constants.ts                                                    *)

MAX_TASKS_PER_USER == 1000
MAX_TITLE_LENGTH == 200
MAX_DESCRIPTION_LENGTH == 5000
MAX_THREADS_PER_USER == 50
MAX_THREAD_TITLE_LENGTH == 100
MAX_MESSAGE_LENGTH == 10000
MAX_MESSAGES_PER_THREAD == 1000

VALID_STATUS_TRANSITIONS ==
    [pending     |-> {"pending", "in_progress", "completed"},
     in_progress |-> {"in_progress", "completed", "pending"},
     completed   |-> {"completed", "pending"}]

-----------------------------------------------------------------------------
(* helpers/validation.ts                                                   *)

\* the upper bound compared with < for <=
isValidTaskTitleOffByOne(title) == StrLen(title) > 0 /\ StrLen(title) < 200

isValidTaskTitle(title) == StrLen(title) > 0 /\ StrLen(title) <= 200

isValidTaskDescription(description) == StrLen(description) <= 5000

DAY_SECONDS == 86400
FIVE_YEARS_SECONDS == 157680000

isValidDueDate(dueDate, t) ==
    dueDate >= t - DAY_SECONDS /\ dueDate <= t + FIVE_YEARS_SECONDS

isValidThreadTitle(title) == StrLen(title) > 0 /\ StrLen(title) <= 100

isValidMessageContent(content) == StrLen(content) > 0 /\ StrLen(content) <= 10000

-----------------------------------------------------------------------------
(* Callers.  NoUser is a request for which getAuthUser returns null.       *)

Users == {"u1", "u2"}
NoUser == "anonymous"
Callers == Users \cup {NoUser}

-----------------------------------------------------------------------------
(* rateLimiter.ts: the token buckets.  A bucket holds at most capacity     *)
(* tokens (capacity defaults to rate) and gains rate tokens per period;    *)
(* limit() takes one token, or answers ok = false with the time until one  *)
(* token is there.  A value counts 1/PERIOD tokens, so that one second     *)
(* adds rate to it.                                                        *)

PERIOD == 60

\* the configuration without the burst capacities
rateLimitsNoBurst ==
    [createTask   |-> [rate |-> 20, capacity |-> 20],
     updateTask   |-> [rate |-> 50, capacity |-> 50],
     deleteTask   |-> [rate |-> 30, capacity |-> 30],
     createThread |-> [rate |-> 5,  capacity |-> 5],
     sendMessage  |-> [rate |-> 10, capacity |-> 10]]

rateLimits ==
    [createTask   |-> [rate |-> 20, capacity |-> 5],
     updateTask   |-> [rate |-> 50, capacity |-> 50],
     deleteTask   |-> [rate |-> 30, capacity |-> 30],
     createThread |-> [rate |-> 5,  capacity |-> 2],
     sendMessage  |-> [rate |-> 10, capacity |-> 3]]

BucketNames == DOMAIN rateLimits

\* the limiter computes in double precision: what it answers is the exact
\* value (rounding 0) or a double next to it, just below (-1) or just above
\* (1); which one depends on the sequence of operations that filled the bucket
Roundings == {-1, 0, 1}

\* no stored value is the result of a refill: a bucket never used holds its
\* capacity, and taking a token with no time elapsed subtracts exactly
NoneRounded == [u \in Users |-> {}]

\* a double of milliseconds: the quotient num / den, off by the rounding
Millis(num, den, rounding) == [num |-> num, den |-> den, rounding |-> rounding]

\* the answer of rateLimiter.limit(ctx, name, {key}); retryAfter is the time in
\* milliseconds until the bucket holds one token, the missing part of the
\* token ((PERIOD - value) / PERIOD) divided by the rate per millisecond
\* (rate / (PERIOD * 1000)), as a double.  A refilled value that is one
\* token in exact terms can be a double just below one token: then ok is
\* false and retryAfter a double just above 0
rateLimitStatus(name, key, rounding) ==
    LET value == buckets[key][name] IN
    IF value > PERIOD \/ (value = PERIOD /\ ~(name \in rounded[key] /\ rounding = 1))
    THEN [ok |-> TRUE, retryAfter |-> Millis(0, 1, 0)]
    ELSE [ok |-> FALSE,
          retryAfter |-> Millis((PERIOD - value) * 1000, rateLimits[name].rate,
                                rounding)]

\* the roundings an answer of limit() to the caller can carry: an answer with
\* ok = true has no retryAfter to round, and a refilled value of one token
\* is that token (0) or just below it (retryAfter just above 0: 1)
RoundingsFor(name, caller) ==
    IF caller \notin DOMAIN buckets \/ buckets[caller][name] > PERIOD THEN {0}
    ELSE IF buckets[caller][name] < PERIOD THEN Roundings
    ELSE IF name \in rounded[caller] THEN {0, 1}
    ELSE {0}

\* the limiter's state after rateLimiter.limit(ctx, name, {key}): an answer
\* with ok = false stores nothing
rateLimitConsume(name, key, rounding) ==
    IF rateLimitStatus(name, key, rounding).ok
    THEN [buckets EXCEPT ![key][name] = @ - PERIOD]
    ELSE buckets

\* the milliseconds rounded down to whole seconds
retrySecondsFloor(status) ==
    LET r == status.retryAfter IN r.num \div (r.den * 1000)

\* Math.ceil(rateLimitStatus.retryAfter / 1000): a double just above a whole
\* number of seconds rounds up to the next one
retrySeconds(status) ==
    LET r == status.retryAfter IN
        CeilDiv(r.num, r.den * 1000)
            + (IF r.rounding = 1 /\ r.num % (r.den * 1000) = 0 THEN 1 ELSE 0)

\* the bucket refills: seconds pass, every bucket gains rate per second (in
\* 1/PERIOD tokens) up to its capacity
refill(value, name, seconds) ==
    Min(rateLimits[name].capacity * PERIOD, value + seconds * rateLimits[name].rate)

\* the refill never capped at the capacity
refillUncapped(value, name, seconds) == value + seconds * rateLimits[name].rate

\* the refill computes value + elapsed * rate in doubles: below the capacity
\* the stored value is the rounded sum, above it the capacity itself
roundedAfter(was, value, name, seconds) ==
    IF seconds = 0 THEN was
    ELSE refillUncapped(value, name, seconds) <= rateLimits[name].capacity * PERIOD

Wait(seconds) ==
    /\ now' = now + seconds
    /\ buckets' = [u \in Users |-> [b \in BucketNames |->
                       refill(buckets[u][b], b, seconds)]]
    /\ rounded' = [u \in Users |->
                       {b \in BucketNames :
                           roundedAfter(b \in rounded[u], buckets[u][b], b, seconds)}]
    /\ UNCHANGED <<taskVars, threadVars, messageVars, sends, deleteTrace, res>>

\* the limiter's state after a call by caller that reaches limit(name)
bucketsAfter(name, caller, rounding) ==
    IF caller = NoUser THEN buckets ELSE rateLimitConsume(name, caller, rounding)

\* the limiter's state after a mutation: the handler is one transaction, so
\* when it throws, the write limit() made is rolled back with the rest
bucketsAfterMutation(name, caller, outcome, rounding) ==
    IF outcome[1] = "Ok" THEN bucketsAfter(name, caller, rounding) ELSE buckets


-----------------------------------------------------------------------------
(* db/tasks.ts: the task store.                                            *)

TaskFields ==
    {"userId", "title", "description", "status", "priority", "dueDate",
     "completedAt", "createdAt", "updatedAt"}

getTaskById(id) == IF id \in DOMAIN tasks THEN Def(tasks[id]) ELSE Undefined

\* getTasksByUser(ctx, userId).length
countTasksByUser(userId) ==
    Cardinality({i \in DOMAIN tasks : tasks[i].userId = userId}) + taskBacklog[userId]

\* createTask: insert the document with both timestamps
createTask(id, fields) ==
    [i \in DOMAIN tasks \cup {id} |->
        IF i = id
        THEN [f \in TaskFields |->
                IF f \in DOMAIN fields THEN fields[f]
                ELSE IF f \in {"createdAt", "updatedAt"} THEN now
                ELSE Undefined]
        ELSE tasks[i]]

\* db.patch: the fields named in updates replace the stored ones (a field
\* patched to undefined is removed)
patch(doc, updates) ==
    [f \in DOMAIN doc |-> IF f \in DOMAIN updates THEN updates[f] ELSE doc[f]]

\* updateTask: patch the document and stamp updatedAt
updateTask(id, updates) ==
    [tasks EXCEPT ![id] = [patch(@, updates) EXCEPT !.updatedAt = now]]

\* markTaskCompleted: status completed, completion time now
markTaskCompleted(id) ==
    [tasks EXCEPT ![id] = [@ EXCEPT !.status = "completed",
                                    !.completedAt = Def(now),
                                    !.updatedAt = now]]

deleteTask(id) == [i \in DOMAIN tasks \ {id} |-> tasks[i]]

-----------------------------------------------------------------------------
(* The record of the last finished call.                                   *)

NoArgs == [none |-> TRUE]

Result(op, caller, id, args, outcome, msg) ==
    [op |-> op, caller |-> caller, id |-> id, args |-> args,
     outcome |-> outcome, msg |-> msg]

\* thrown errors: <<class, message>>
Ok == <<"Ok", "">>
NotAuthenticated == <<"Unauthenticated", "Not authenticated">>
\* `Rate limit exceeded. Please try again in ${Math.ceil(retryAfter / 1000)} seconds.`
RateLimitExceeded(status) ==
    <<"RateLimited",
      "Rate limit exceeded. Please try again in " \o ToString(retrySeconds(status))
          \o " seconds.">>
TaskNotFound == <<"NotFound", "Task not found">>
ThreadNotFound == <<"NotFound", "Thread not found">>
NotAuthorizedTo(what) == <<"Forbidden", "Not authorized to " \o what>>
InvalidTitle == <<"InvalidInput", "Task title must be between 1 and 200 characters">>
InvalidDescription ==
    <<"InvalidInput", "Task description must be less than 5000 characters">>
InvalidDueDate == <<"InvalidInput", "Invalid due date">>
InvalidThreadTitle ==
    <<"InvalidInput", "Thread title must be between 1 and 100 characters">>
InvalidContent ==
    <<"InvalidInput", "Message content must be between 1 and 10000 characters">>
\* `Maximum ${MAX_TASKS_PER_USER} tasks per user reached` and the like
MaxTasksReached ==
    <<"QuotaExceeded",
      "Maximum " \o ToString(MAX_TASKS_PER_USER) \o " tasks per user reached">>
MaxThreadsReached ==
    <<"QuotaExceeded",
      "Maximum " \o ToString(MAX_THREADS_PER_USER) \o " threads per user reached">>
MaxMessagesReached ==
    <<"QuotaExceeded",
      "Maximum " \o ToString(MAX_MESSAGES_PER_THREAD) \o " messages per thread reached">>

-----------------------------------------------------------------------------
(* Conditions shared by the endpoints.                                     *)

\* the ownership check left out
notOwnerNever(doc, caller) == FALSE

\* doc.userId !== authUser._id
notOwner(doc, caller) == doc.userId # caller

\* the limit compared with > for >=
limitReachedOffByOne(count, max) == count > max

\* existing.length >= MAX
limitReached(count, max) == count >= max

\* JavaScript truthiness of an optional string and of an optional number
truthyString(o) == o # Undefined /\ Val(o) # <<>>
truthyNumber(o) == o # Undefined /\ Val(o) # 0

-----------------------------------------------------------------------------
(* endpoints/tasks.ts                                                      *)

\* create: the first failing check, in the order the handler makes them
createOutcome(caller, args, rounding) ==
    IF caller = NoUser THEN NotAuthenticated
    ELSE IF ~rateLimitStatus("createTask", caller, rounding).ok
         THEN RateLimitExceeded(rateLimitStatus("createTask", caller, rounding))
    ELSE IF ~isValidTaskTitle(sanitizeInput(args.title)) THEN InvalidTitle
    ELSE IF truthyString(args.description)
            /\ ~isValidTaskDescription(sanitizeInput(Val(args.description)))
         THEN InvalidDescription
    ELSE IF truthyNumber(args.dueDate) /\ ~isValidDueDate(Val(args.dueDate), now)
         THEN InvalidDueDate
    ELSE IF limitReached(countTasksByUser(caller), MAX_TASKS_PER_USER)
         THEN MaxTasksReached
    ELSE Ok

create(caller, args) ==
    \E rounding \in RoundingsFor("createTask", caller) :
    LET outcome == createOutcome(caller, args, rounding)
        id == nextTaskId
    IN  /\ buckets' = bucketsAfterMutation("createTask", caller, outcome, rounding)
        /\ rounded' = rounded
        /\ IF outcome = Ok
           THEN /\ tasks' = createTask(id,
                      [userId      |-> caller,
                       title       |-> sanitizeInput(args.title),
                       description |-> IF truthyString(args.description)
                                       THEN Def(sanitizeInput(Val(args.description)))
                                       ELSE Undefined,
                       status      |-> "pending",
                       priority    |-> args.priority,
                       dueDate     |-> args.dueDate])
                /\ nextTaskId' = nextTaskId + 1
                /\ UNCHANGED taskBacklog
           ELSE UNCHANGED taskVars
        /\ res' = Result("tasks.create", caller,
                         IF outcome = Ok THEN id ELSE 0, args, outcome[1], outcome[2])
        /\ UNCHANGED <<now, threadVars, messageVars, sends, deleteTrace>>

\* get: a query, no rate limit
getOutcome(caller, id) ==
    IF caller = NoUser THEN NotAuthenticated
    ELSE IF getTaskById(id) = Undefined THEN TaskNotFound
    ELSE IF notOwner(Val(getTaskById(id)), caller) THEN NotAuthorizedTo("view this task")
    ELSE Ok

\* get taking a token of the update bucket, as the mutations do
getRateLimited(caller, id) ==
    LET outcome == getOutcome(caller, id) IN
        /\ buckets' = bucketsAfter("updateTask", caller, 0)
        /\ rounded' = rounded
        /\ res' = Result("tasks.get", caller, id, NoArgs, outcome[1], outcome[2])
        /\ UNCHANGED <<now, taskVars, threadVars, messageVars, sends, deleteTrace>>

get(caller, id) ==
    LET outcome == getOutcome(caller, id) IN
        /\ res' = Result("tasks.get", caller, id, NoArgs, outcome[1], outcome[2])
        /\ UNCHANGED <<now, limiterVars, taskVars, threadVars, messageVars, sends, deleteTrace>>

\* the completion time stamped but never cleared
completedAtUpdatesNoClear(argStatus, taskStatus) ==
    IF argStatus = "completed" /\ taskStatus # "completed"
    THEN [completedAt |-> Def(now)]
    ELSE <<>>

\* the completion time set from the requested status alone
completedAtUpdatesRequestedOnly(argStatus, taskStatus) ==
    IF argStatus = "completed"
    THEN [completedAt |-> Def(now)]
    ELSE [completedAt |-> Undefined]

\* update, lines 250-260: the completion time follows the stored status
completedAtUpdates(argStatus, taskStatus) ==
    IF argStatus = "completed" /\ taskStatus # "completed"
    THEN [completedAt |-> Def(now)]
    ELSE IF argStatus # "completed" /\ taskStatus = "completed"
    THEN [completedAt |-> Undefined]
    ELSE <<>>

\* update validating the sanitized title and description, storing the supplied ones
updatesOfUnsanitized(args, task) ==
    LET given == {f \in {"title", "description", "status", "priority", "dueDate"} :
                      args[f] # Undefined}
        stamp == IF args.status # Undefined
                 THEN completedAtUpdates(Val(args.status), task.status)
                 ELSE <<>>
    IN  [f \in given \cup DOMAIN stamp |->
            IF f = "completedAt" THEN stamp.completedAt
            ELSE IF f = "title" THEN Val(args.title)
            ELSE IF f = "status" THEN Val(args.status)
            ELSE args[f]]

\* the updates object the handler builds from the supplied arguments
updatesOf(args, task) ==
    LET given == {f \in {"title", "description", "status", "priority", "dueDate"} :
                      args[f] # Undefined}
        stamp == IF args.status # Undefined
                 THEN completedAtUpdates(Val(args.status), task.status)
                 ELSE <<>>
    IN  [f \in given \cup DOMAIN stamp |->
            IF f = "completedAt" THEN stamp.completedAt
            ELSE IF f = "title" THEN sanitizeInput(Val(args.title))
            ELSE IF f = "description" THEN Def(sanitizeInput(Val(args.description)))
            ELSE IF f = "status" THEN Val(args.status)
            ELSE args[f]]

\* update with the fields validated before the task is loaded
updateOutcomeValidateFirst(caller, id, args, rounding) ==
    IF caller = NoUser THEN NotAuthenticated
    ELSE IF ~rateLimitStatus("updateTask", caller, rounding).ok
         THEN RateLimitExceeded(rateLimitStatus("updateTask", caller, rounding))
    ELSE IF args.title # Undefined /\ ~isValidTaskTitle(sanitizeInput(Val(args.title)))
         THEN InvalidTitle
    ELSE IF args.description # Undefined
            /\ ~isValidTaskDescription(sanitizeInput(Val(args.description)))
         THEN InvalidDescription
    ELSE IF args.dueDate # Undefined /\ ~isValidDueDate(Val(args.dueDate), now)
         THEN InvalidDueDate
    ELSE IF getTaskById(id) = Undefined THEN TaskNotFound
    ELSE IF notOwner(Val(getTaskById(id)), caller)
         THEN NotAuthorizedTo("update this task")
    ELSE Ok

\* update: the first failing check, in the order the handler makes them
updateOutcome(caller, id, args, rounding) ==
    IF caller = NoUser THEN NotAuthenticated
    ELSE IF ~rateLimitStatus("updateTask", caller, rounding).ok
         THEN RateLimitExceeded(rateLimitStatus("updateTask", caller, rounding))
    ELSE IF getTaskById(id) = Undefined THEN TaskNotFound
    ELSE IF notOwner(Val(getTaskById(id)), caller)
         THEN NotAuthorizedTo("update this task")
    ELSE IF args.title # Undefined /\ ~isValidTaskTitle(sanitizeInput(Val(args.title)))
         THEN InvalidTitle
    ELSE IF args.description # Undefined
            /\ ~isValidTaskDescription(sanitizeInput(Val(args.description)))
         THEN InvalidDescription
    ELSE IF args.dueDate # Undefined /\ ~isValidDueDate(Val(args.dueDate), now)
         THEN InvalidDueDate
    ELSE Ok

\* update writing title, description and status before the due date is checked
updateWritesBeforeDueDate(caller, id, args) ==
    \E rounding \in RoundingsFor("updateTask", caller) :
    LET outcome == updateOutcome(caller, id, args, rounding) IN
        /\ buckets' = bucketsAfterMutation("updateTask", caller, outcome, rounding)
        /\ rounded' = rounded
        /\ tasks' = IF outcome = Ok THEN updateTask(id, updatesOf(args, tasks[id]))
                    ELSE IF outcome = InvalidDueDate
                    THEN updateTask(id, updatesOf([args EXCEPT !.dueDate = Undefined],
                                                  tasks[id]))
                    ELSE tasks
        /\ res' = Result("tasks.update", caller, id, args, outcome[1], outcome[2])
        /\ UNCHANGED <<now, taskBacklog, nextTaskId, threadVars, messageVars, sends,
                       deleteTrace>>

update(caller, id, args) ==
    \E rounding \in RoundingsFor("updateTask", caller) :
    LET outcome == updateOutcome(caller, id, args, rounding) IN
        /\ buckets' = bucketsAfterMutation("updateTask", caller, outcome, rounding)
        /\ rounded' = rounded
        /\ tasks' = IF outcome = Ok THEN updateTask(id, updatesOf(args, tasks[id]))
                    ELSE tasks
        /\ res' = Result("tasks.update", caller, id, args, outcome[1], outcome[2])
        /\ UNCHANGED <<now, taskBacklog, nextTaskId, threadVars, messageVars, sends,
                       deleteTrace>>

completeOutcome(caller, id, rounding) ==
    IF caller = NoUser THEN NotAuthenticated
    ELSE IF ~rateLimitStatus("updateTask", caller, rounding).ok
         THEN RateLimitExceeded(rateLimitStatus("updateTask", caller, rounding))
    ELSE IF getTaskById(id) = Undefined THEN TaskNotFound
    ELSE IF notOwner(Val(getTaskById(id)), caller)
         THEN NotAuthorizedTo("update this task")
    ELSE Ok

complete(caller, id) ==
    \E rounding \in RoundingsFor("updateTask", caller) :
    LET outcome == completeOutcome(caller, id, rounding) IN
        /\ buckets' = bucketsAfterMutation("updateTask", caller, outcome, rounding)
        /\ rounded' = rounded
        /\ tasks' = IF outcome = Ok THEN markTaskCompleted(id) ELSE tasks
        /\ res' = Result("tasks.complete", caller, id, NoArgs, outcome[1], outcome[2])
        /\ UNCHANGED <<now, taskBacklog, nextTaskId, threadVars, messageVars, sends,
                       deleteTrace>>

removeOutcome(caller, id, rounding) ==
    IF caller = NoUser THEN NotAuthenticated
    ELSE IF ~rateLimitStatus("deleteTask", caller, rounding).ok
         THEN RateLimitExceeded(rateLimitStatus("deleteTask", caller, rounding))
    ELSE IF getTaskById(id) = Undefined THEN TaskNotFound
    ELSE IF notOwner(Val(getTaskById(id)), caller)
         THEN NotAuthorizedTo("delete this task")
    ELSE Ok

remove(caller, id) ==
    \E rounding \in RoundingsFor("deleteTask", caller) :
    LET outcome == removeOutcome(caller, id, rounding) IN
        /\ buckets' = bucketsAfterMutation("deleteTask", caller, outcome, rounding)
        /\ rounded' = rounded
        /\ tasks' = IF outcome = Ok THEN deleteTask(id) ELSE tasks
        /\ res' = Result("tasks.remove", caller, id, NoArgs, outcome[1], outcome[2])
        /\ UNCHANGED <<now, taskBacklog, nextTaskId, threadVars, messageVars, sends,
                       deleteTrace>>

-----------------------------------------------------------------------------
(* db/threads.ts and db/messages.ts: the thread and message stores.        *)

ThreadFields == {"userId", "title", "status", "createdAt", "updatedAt"}

getThreadById(id) == IF id \in DOMAIN threads THEN Def(threads[id]) ELSE Undefined

\* getThreadsByUser(ctx, userId).length
countThreadsByUser(userId) ==
    Cardinality({i \in DOMAIN threads : threads[i].userId = userId})
        + threadBacklog[userId]

\* createThread: insert the document with both timestamps
insertThread(id, fields) ==
    [i \in DOMAIN threads \cup {id} |->
        IF i = id
        THEN [f \in ThreadFields |->
                IF f \in DOMAIN fields THEN fields[f] ELSE now]
        ELSE threads[i]]

\* Threads.updateThread: patch the document and stamp updatedAt
patchThread(id, updates) ==
    [threads EXCEPT ![id] = [patch(@, updates) EXCEPT !.updatedAt = now]]

\* getMessagesByThread: the stored messages of the thread, oldest first
\* (the older ones kept in msgBacklog come before them)
getMessagesByThread(threadId) ==
    SelectSeq(messages, LAMBDA m : m.threadId = threadId)

backlogOf(threadId) == IF threadId \in DOMAIN msgBacklog THEN msgBacklog[threadId] ELSE 0

\* countMessagesInThread: getMessagesByThread(...).length
countMessagesInThread(threadId) ==
    Len(getMessagesByThread(threadId)) + backlogOf(threadId)

\* createMessage: insert the document
createMessage(id, threadId, userId, role, content) ==
    Append(messages, [id |-> id, threadId |-> threadId, userId |-> userId,
                      role |-> role, content |-> content, createdAt |-> now])

\* the thread and message tables as one value, for the writes of deleteThread
Store(th, ms, bl) == [threads |-> th, messages |-> ms, msgBacklog |-> bl]

\* deleteMessagesByThread: delete every message of the thread
deleteMessagesByThread(store, threadId) ==
    [store EXCEPT
        !.messages = SelectSeq(@, LAMBDA m : m.threadId # threadId),
        !.msgBacklog = [t \in DOMAIN @ |-> IF t = threadId THEN 0 ELSE @[t]]]

\* Threads.deleteThread: delete the thread document
removeThread(store, threadId) ==
    [store EXCEPT !.threads = [i \in DOMAIN @ \ {threadId} |-> @[i]]]

-----------------------------------------------------------------------------
(* endpoints/assistant.ts: threads                                         *)

createThreadOutcome(caller, title, rounding) ==
    IF caller = NoUser THEN NotAuthenticated
    ELSE IF ~rateLimitStatus("createThread", caller, rounding).ok
         THEN RateLimitExceeded(rateLimitStatus("createThread", caller, rounding))
    ELSE IF limitReached(countThreadsByUser(caller), MAX_THREADS_PER_USER)
         THEN MaxThreadsReached
    ELSE IF truthyString(title) /\ ~isValidThreadTitle(sanitizeInput(Val(title)))
         THEN InvalidThreadTitle
    ELSE Ok

createThread(caller, title) ==
    \E rounding \in RoundingsFor("createThread", caller) :
    LET outcome == createThreadOutcome(caller, title, rounding)
        id == nextThreadId
    IN  /\ buckets' = bucketsAfterMutation("createThread", caller, outcome, rounding)
        /\ rounded' = rounded
        /\ IF outcome = Ok
           THEN /\ threads' = insertThread(id,
                      [userId |-> caller,
                       title  |-> IF truthyString(title)
                                  THEN Def(sanitizeInput(Val(title))) ELSE Undefined,
                       status |-> "active"])
                /\ nextThreadId' = nextThreadId + 1
                /\ UNCHANGED threadBacklog
           ELSE UNCHANGED threadVars
        /\ res' = Result("createThread", caller, IF outcome = Ok THEN id ELSE 0,
                         [title |-> title], outcome[1], outcome[2])
        /\ UNCHANGED <<now, taskVars, messageVars, sends, deleteTrace>>

\* the checks getThread, updateThread and deleteThread share: no rate limit
threadAccessOutcome(caller, threadId, what) ==
    IF caller = NoUser THEN NotAuthenticated
    ELSE IF getThreadById(threadId) = Undefined THEN ThreadNotFound
    ELSE IF notOwner(Val(getThreadById(threadId)), caller) THEN NotAuthorizedTo(what)
    ELSE Ok

getThread(caller, threadId) ==
    LET outcome == threadAccessOutcome(caller, threadId, "view this thread") IN
        /\ res' = Result("getThread", caller, threadId, NoArgs, outcome[1], outcome[2])
        /\ UNCHANGED <<now, limiterVars, taskVars, threadVars, messageVars, sends, deleteTrace>>

updateThreadOutcome(caller, threadId, args) ==
    LET access == threadAccessOutcome(caller, threadId, "update this thread") IN
    IF access # Ok THEN access
    ELSE IF args.title # Undefined /\ ~isValidThreadTitle(sanitizeInput(Val(args.title)))
         THEN InvalidThreadTitle
    ELSE Ok

threadUpdatesOf(args) ==
    [f \in {g \in {"title", "status"} : args[g] # Undefined} |->
        IF f = "title" THEN Def(sanitizeInput(Val(args.title))) ELSE Val(args.status)]

updateThread(caller, threadId, args) ==
    LET outcome == updateThreadOutcome(caller, threadId, args) IN
        /\ threads' = IF outcome = Ok THEN patchThread(threadId, threadUpdatesOf(args))
                      ELSE threads
        /\ res' = Result("updateThread", caller, threadId, args, outcome[1], outcome[2])
        /\ UNCHANGED <<now, limiterVars, taskVars, threadBacklog, nextThreadId, messageVars,
                       sends, deleteTrace>>

\* the thread deleted before its messages
deleteThreadWritesThreadFirst == <<"deleteThread", "deleteMessagesByThread">>

\* deleteThread, lines 188-192: the writes of the handler, in order
deleteThreadWrites == <<"deleteMessagesByThread", "deleteThread">>

applyWrite(store, write, threadId) ==
    IF write = "deleteMessagesByThread" THEN deleteMessagesByThread(store, threadId)
    ELSE removeThread(store, threadId)

\* the store after each write of the handler
RECURSIVE runWrites(_, _, _)
runWrites(store, writes, threadId) ==
    IF writes = <<>> THEN <<>>
    ELSE LET next == applyWrite(store, Head(writes), threadId)
         IN  <<next>> \o runWrites(next, Tail(writes), threadId)

\* what a store holds of one thread
viewOf(store, threadId) ==
    [threadId |-> threadId,
     thread   |-> threadId \in DOMAIN store.threads,
     messages |-> Len(SelectSeq(store.messages, LAMBDA m : m.threadId = threadId))
                  + (IF threadId \in DOMAIN store.msgBacklog
                     THEN store.msgBacklog[threadId] ELSE 0)]

deleteThread(caller, threadId) ==
    LET outcome == threadAccessOutcome(caller, threadId, "delete this thread")
        before == Store(threads, messages, msgBacklog)
        stores == runWrites(before, deleteThreadWrites, threadId)
        after == stores[Len(stores)]
    IN  /\ IF outcome = Ok
           THEN /\ threads' = after.threads
                /\ messages' = after.messages
                /\ msgBacklog' = after.msgBacklog
                /\ deleteTrace' = <<viewOf(before, threadId)>>
                                  \o [k \in 1 .. Len(stores) |-> viewOf(stores[k], threadId)]
           ELSE UNCHANGED <<threads, messages, msgBacklog, deleteTrace>>
        /\ res' = Result("deleteThread", caller, threadId, NoArgs, outcome[1], outcome[2])
        /\ UNCHANGED <<now, limiterVars, taskVars, threadBacklog, nextThreadId, nextMsgId, sends>>

-----------------------------------------------------------------------------
(* endpoints/assistant.ts: sendMessage.  The handler is an action: the     *)
(* rate limiter call and every runQuery / runMutation is a transaction of  *)
(* its own, and other calls may run between two of them.  A slot of sends  *)
(* holds the local variables of one call in flight and its position.       *)

HISTORY_LIMIT == 10

Idle == [pc |-> "idle"]

AgentFailed == <<"AgentError", "agent call failed">>

SendResult(call, outcome) ==
    [op |-> "sendMessage", caller |-> call.caller, id |-> call.threadId,
     args |-> [content |-> call.raw], outcome |-> outcome[1], msg |-> outcome[2],
     locals |-> call]

\* the call ends: it throws, or returns after the last step
sendEnd(slot, call, outcome) ==
    /\ res' = SendResult(call, outcome)
    /\ sends' = [sends EXCEPT ![slot] = Idle]

\* the content validated before the rate limit is consulted
sendStartOutcomeValidateFirst(caller, content, rounding) ==
    IF caller = NoUser THEN NotAuthenticated
    ELSE IF ~isValidMessageContent(sanitizeInput(content)) THEN InvalidContent
    ELSE IF ~rateLimitStatus("sendMessage", caller, rounding).ok
         THEN RateLimitExceeded(rateLimitStatus("sendMessage", caller, rounding))
    ELSE Ok

\* steps 1-3: identity, rate limit, content validation
sendStartOutcome(caller, content, rounding) ==
    IF caller = NoUser THEN NotAuthenticated
    ELSE IF ~rateLimitStatus("sendMessage", caller, rounding).ok
         THEN RateLimitExceeded(rateLimitStatus("sendMessage", caller, rounding))
    ELSE IF ~isValidMessageContent(sanitizeInput(content)) THEN InvalidContent
    ELSE Ok

sendMessage(slot, caller, threadId, content) ==
    \E rounding \in RoundingsFor("sendMessage", caller) :
    LET outcome == sendStartOutcome(caller, content, rounding)
        call == [pc |-> "thread", caller |-> caller, threadId |-> threadId,
                 raw |-> content,
                 limited |-> IF caller = NoUser THEN Undefined
                             ELSE Def(~rateLimitStatus("sendMessage", caller, rounding).ok),
                 sanitizedContent |-> sanitizeInput(content),
                 thread |-> Undefined, messageCount |-> Undefined,
                 userMessageId |-> Undefined, tasks |-> Undefined,
                 conversationHistory |-> Undefined, agentCalled |-> FALSE,
                 aiResponse |-> Undefined, assistantMessageId |-> Undefined]
    IN  /\ sends[slot].pc = "idle"
        /\ buckets' = bucketsAfter("sendMessage", caller, rounding)
        /\ rounded' = rounded
        /\ IF outcome = Ok
           THEN sends' = [sends EXCEPT ![slot] = call] /\ UNCHANGED res
           ELSE sendEnd(slot, call, outcome)
        /\ UNCHANGED <<now, taskVars, threadVars, messageVars, deleteTrace>>

\* step 4: load the thread, verify ownership
sendVerifyThread(slot) ==
    LET call == sends[slot]
        thread == getThreadById(call.threadId)
        loaded == [call EXCEPT !.thread = thread, !.pc = "count"]
    IN  /\ call.pc = "thread"
        /\ IF thread = Undefined THEN sendEnd(slot, loaded, ThreadNotFound)
           ELSE IF notOwner(Val(thread), call.caller)
                THEN sendEnd(slot, loaded, NotAuthorizedTo("send messages in this thread"))
           ELSE sends' = [sends EXCEPT ![slot] = loaded] /\ UNCHANGED res
        /\ UNCHANGED <<now, limiterVars, taskVars, threadVars, messageVars, deleteTrace>>

\* step 5: check the message limit
sendCheckLimit(slot) ==
    LET call == sends[slot]
        messageCount == countMessagesInThread(call.threadId)
        counted == [call EXCEPT !.messageCount = Def(messageCount), !.pc = "save"]
    IN  /\ call.pc = "count"
        /\ IF limitReached(messageCount, MAX_MESSAGES_PER_THREAD)
           THEN sendEnd(slot, counted, MaxMessagesReached)
           ELSE sends' = [sends EXCEPT ![slot] = counted] /\ UNCHANGED res
        /\ UNCHANGED <<now, limiterVars, taskVars, threadVars, messageVars, deleteTrace>>

\* the user message saved as it was supplied
sendSaveUserMessageRaw(slot) ==
    LET call == sends[slot] IN
        /\ call.pc = "save"
        /\ messages' = createMessage(nextMsgId, call.threadId, call.caller, "user",
                                     call.raw)
        /\ nextMsgId' = nextMsgId + 1
        /\ sends' = [sends EXCEPT ![slot] =
                        [call EXCEPT !.userMessageId = Def(nextMsgId), !.pc = "tasks"]]
        /\ UNCHANGED <<now, limiterVars, taskVars, threadVars, msgBacklog, deleteTrace, res>>

\* step 6: save the user message
sendSaveUserMessage(slot) ==
    LET call == sends[slot] IN
        /\ call.pc = "save"
        /\ messages' = createMessage(nextMsgId, call.threadId, call.caller, "user",
                                     call.sanitizedContent)
        /\ nextMsgId' = nextMsgId + 1
        /\ sends' = [sends EXCEPT ![slot] =
                        [call EXCEPT !.userMessageId = Def(nextMsgId), !.pc = "tasks"]]
        /\ UNCHANGED <<now, limiterVars, taskVars, threadVars, msgBacklog, deleteTrace, res>>

\* step 7: the caller's tasks, for the context summary
sendLoadTasks(slot) ==
    LET call == sends[slot] IN
        /\ call.pc = "tasks"
        /\ sends' = [sends EXCEPT ![slot] =
                        [call EXCEPT !.tasks = Def(countTasksByUser(call.caller)),
                                     !.pc = "history"]]
        /\ UNCHANGED <<now, limiterVars, taskVars, threadVars, messageVars, deleteTrace, res>>

\* getRecentMessagesByThread(threadId, limit): the newest limit messages of the
\* thread, oldest first; older counts the ones taken from msgBacklog
getRecentMessagesByThread(threadId, limit) ==
    LET all == getMessagesByThread(threadId)
        taken == Min(limit, Len(all))
    IN  [older |-> Min(limit - taken, backlogOf(threadId)),
         ids   |-> [k \in 1 .. taken |-> all[Len(all) - taken + k].id]]

\* steps 8-9: the previous messages, without the one just added
sendLoadHistory(slot) ==
    LET call == sends[slot]
        previousMessages == getRecentMessagesByThread(call.threadId, HISTORY_LIMIT)
        conversationHistory ==
            [previousMessages EXCEPT
                !.ids = SelectSeq(@, LAMBDA m : m # Val(call.userMessageId))]
    IN  /\ call.pc = "history"
        /\ sends' = [sends EXCEPT ![slot] =
                        [call EXCEPT !.conversationHistory = Def(conversationHistory),
                                     !.pc = "agent"]]
        /\ UNCHANGED <<now, limiterVars, taskVars, threadVars, messageVars, deleteTrace, res>>

\* a failed agent call that takes the user message back
sendCallAgentRollback(slot, reply) ==
    LET call == sends[slot]
        called == [call EXCEPT !.agentCalled = TRUE, !.aiResponse = reply, !.pc = "reply"]
    IN  /\ call.pc = "agent"
        /\ IF reply = Undefined
           THEN /\ sendEnd(slot, called, AgentFailed)
                /\ messages' = SelectSeq(messages,
                                    LAMBDA m : m.id # Val(call.userMessageId))
           ELSE sends' = [sends EXCEPT ![slot] = called] /\ UNCHANGED <<res, messages>>
        /\ UNCHANGED <<now, limiterVars, taskVars, threadVars, msgBacklog, nextMsgId,
                       deleteTrace>>

\* step 10: the agent answers with a text, or the call fails (reply undefined)
sendCallAgent(slot, reply) ==
    LET call == sends[slot]
        called == [call EXCEPT !.agentCalled = TRUE, !.aiResponse = reply, !.pc = "reply"]
    IN  /\ call.pc = "agent"
        /\ IF reply = Undefined
           THEN sendEnd(slot, called, AgentFailed)
           ELSE sends' = [sends EXCEPT ![slot] = called] /\ UNCHANGED res
        /\ UNCHANGED <<now, limiterVars, taskVars, threadVars, messageVars, deleteTrace>>

\* step 11: save the reply and return
sendSaveResponse(slot) ==
    LET call == sends[slot] IN
        /\ call.pc = "reply"
        /\ messages' = createMessage(nextMsgId, call.threadId, call.caller, "assistant",
                                     Val(call.aiResponse))
        /\ nextMsgId' = nextMsgId + 1
        /\ sendEnd(slot, [call EXCEPT !.assistantMessageId = Def(nextMsgId),
                                      !.pc = "done"], Ok)
        /\ UNCHANGED <<now, limiterVars, taskVars, threadVars, msgBacklog, deleteTrace>>

\* a runQuery or runMutation of steps 4, 5, 6, 7, 8 or 11 throws: the handler
\* catches nothing, so the call ends there and the transaction that threw
\* wrote nothing; the token taken at step 2 stays taken
StepFailed == <<"InternalError", "query or mutation failed">>

sendStepFails(slot) ==
    LET call == sends[slot] IN
        /\ call.pc \in {"thread", "count", "save", "tasks", "history", "reply"}
        /\ sendEnd(slot, call, StepFailed)
        /\ UNCHANGED <<now, limiterVars, taskVars, threadVars, messageVars, deleteTrace>>

-----------------------------------------------------------------------------
(* The reads: the list queries of endpoints/tasks.ts and of the assistant, *)
(* and endpoints/dashboard.ts with db/dashboard.ts.  A list is the         *)
(* sequence of the ids of its documents; the tasks and threads kept only   *)
(* as a count in taskBacklog and threadBacklog have no id and are in no    *)
(* list, and are counted wherever the code counts documents.               *)

\* the ids of a set in index order (creation order, which is id order)
RECURSIVE SortedIds(_)
SortedIds(ids) ==
    IF ids = {} THEN <<>>
    ELSE LET least == CHOOSE i \in ids : \A j \in ids : i <= j
         IN  <<least>> \o SortedIds(ids \ {least})

Reverse(seq) == [k \in 1 .. Len(seq) |-> seq[Len(seq) + 1 - k]]

Take(seq, n) == SubSeq(seq, 1, Min(n, Len(seq)))

\* db/tasks.ts
getTasksByUser(userId) == SortedIds({i \in DOMAIN tasks : tasks[i].userId = userId})

getTasksByUserAndStatus(userId, status) ==
    SelectSeq(getTasksByUser(userId), LAMBDA i : tasks[i].status = status)

getUpcomingTasks(userId) ==
    SelectSeq(getTasksByUser(userId),
              LAMBDA i : /\ tasks[i].status # "completed"
                         /\ tasks[i].dueDate # Undefined
                         /\ Val(tasks[i].dueDate) >= now)

getOverdueTasks(userId) ==
    SelectSeq(getTasksByUser(userId),
              LAMBDA i : /\ tasks[i].status # "completed"
                         /\ tasks[i].dueDate # Undefined
                         /\ Val(tasks[i].dueDate) < now)

\* the number of tasks of the user kept as a count: pending tasks
untrackedTasks(userId) ==
    IF userId \in DOMAIN taskBacklog THEN taskBacklog[userId] ELSE 0

\* tasks.filter(t => t.status === status).length over every task of the user
countTasksWithStatus(userId, status) ==
    Len(getTasksByUserAndStatus(userId, status))
        + (IF status = "pending" THEN untrackedTasks(userId) ELSE 0)

countTasksByStatus(userId) ==
    [st \in {"pending", "in_progress", "completed"} |->
        countTasksWithStatus(userId, st)]

\* db/threads.ts
getThreadsByUser(userId) == SortedIds({i \in DOMAIN threads : threads[i].userId = userId})

getActiveThreads(userId) ==
    SelectSeq(getThreadsByUser(userId), LAMBDA i : threads[i].status = "active")

\* the records of every owner counted
scopedRecordsUnfiltered(owners, userId) == owners

\* JavaScript truthiness of the optional userId: undefined and '' are falsy
truthyId(userId) == userId # Undefined /\ Val(userId) # ""

\* db/dashboard.ts, loadSummary: records.filter(record => record.userId === userId)
\* when userId is truthy; owners is the sequence of the userId of the records
scopedRecords(owners, userId) ==
    IF truthyId(userId) THEN SelectSeq(owners, LAMBDA o : o = Val(userId)) ELSE owners

\* the owners of the documents kept as a count: counts[k] documents of
\* owner[k] for each key k
RECURSIVE UntrackedOwners(_, _, _)
UntrackedOwners(counts, owner, keys) ==
    IF keys = {} THEN <<>>
    ELSE LET k == CHOOSE key \in keys : TRUE
         IN  [j \in 1 .. counts[k] |-> owner[k]]
                 \o UntrackedOwners(counts, owner, keys \ {k})

\* the owner of the messages of a thread: sendMessage stores both messages of
\* a call with the id of the caller, who owns the thread
threadOwner(threadId) ==
    IF threadId \in DOMAIN threads THEN threads[threadId].userId ELSE NoUser

\* the userId of every record of a table (ctx.db.query(table).collect()), the
\* documents kept as a count first
OwnersOf(table) ==
    IF table = "tasks"
    THEN UntrackedOwners(taskBacklog, [u \in DOMAIN taskBacklog |-> u],
                         DOMAIN taskBacklog)
             \o [k \in 1 .. Len(SortedIds(DOMAIN tasks)) |->
                    tasks[SortedIds(DOMAIN tasks)[k]].userId]
    ELSE IF table = "threads"
    THEN UntrackedOwners(threadBacklog, [u \in DOMAIN threadBacklog |-> u],
                         DOMAIN threadBacklog)
             \o [k \in 1 .. Len(SortedIds(DOMAIN threads)) |->
                    threads[SortedIds(DOMAIN threads)[k]].userId]
    ELSE UntrackedOwners(msgBacklog, [t \in DOMAIN msgBacklog |-> threadOwner(t)],
                         DOMAIN msgBacklog)
             \o [k \in 1 .. Len(messages) |-> messages[k].userId]

TABLES == <<"tasks", "threads", "messages">>

loadSummary(userId) ==
    LET perTable == [t \in {TABLES[k] : k \in DOMAIN TABLES} |->
                        Len(scopedRecords(OwnersOf(t), userId))]
    IN  [perTable     |-> perTable,
         totalRecords |-> perTable.tasks + perTable.threads + perTable.messages,
         taskStats    |-> IF truthyId(userId)
                          THEN Def([st \in {"pending", "in_progress", "completed"} |->
                                      countTasksWithStatus(Val(userId), st)])
                          ELSE Undefined]

\* loadRecent: the newest limit tasks of the user, newest first
loadRecent(userId, limit) == Take(Reverse(getTasksByUser(userId)), limit)

DEFAULT_RECENT_LIMIT == 5

\* a read that answers without resolving the caller
ReadResultNoAuth(op, caller, args, value) ==
    [op |-> op, caller |-> caller, id |-> 0, args |-> args,
     outcome |-> Ok[1], msg |-> Ok[2], value |-> Def(value)]

\* every read: identity, then the db call; no rate limit, no write
ReadResult(op, caller, args, value) ==
    [op |-> op, caller |-> caller, id |-> 0, args |-> args,
     outcome |-> IF caller = NoUser THEN NotAuthenticated[1] ELSE Ok[1],
     msg     |-> IF caller = NoUser THEN NotAuthenticated[2] ELSE Ok[2],
     value   |-> IF caller = NoUser THEN Undefined ELSE Def(value)]

ReadUnchanged ==
    UNCHANGED <<now, limiterVars, taskVars, threadVars, messageVars, sends, deleteTrace>>

list(caller) ==
    /\ res' = ReadResult("tasks.list", caller, NoArgs, getTasksByUser(caller))
    /\ ReadUnchanged

listByStatus(caller, status) ==
    /\ res' = ReadResult("tasks.listByStatus", caller, [status |-> status],
                         getTasksByUserAndStatus(caller, status))
    /\ ReadUnchanged

upcoming(caller) ==
    /\ res' = ReadResult("tasks.upcoming", caller, NoArgs, getUpcomingTasks(caller))
    /\ ReadUnchanged

overdue(caller) ==
    /\ res' = ReadResult("tasks.overdue", caller, NoArgs, getOverdueTasks(caller))
    /\ ReadUnchanged

stats(caller) ==
    /\ res' = ReadResult("tasks.stats", caller, NoArgs, countTasksByStatus(caller))
    /\ ReadUnchanged

listThreads(caller) ==
    /\ res' = ReadResult("listThreads", caller, NoArgs, getThreadsByUser(caller))
    /\ ReadUnchanged

activeThreads(caller) ==
    /\ res' = ReadResult("activeThreads", caller, NoArgs, getActiveThreads(caller))
    /\ ReadUnchanged

summary(caller) ==
    /\ res' = ReadResult("dashboard.summary", caller, NoArgs, loadSummary(Def(caller)))
    /\ ReadUnchanged

recent(caller, limit) ==
    /\ res' = ReadResult("dashboard.recent", caller, [limit |-> limit],
                         loadRecent(caller, IF limit # Undefined THEN Val(limit)
                                            ELSE DEFAULT_RECENT_LIMIT))
    /\ ReadUnchanged

taskStats(caller) ==
    /\ res' = ReadResult("dashboard.taskStats", caller, NoArgs, countTasksByStatus(caller))
    /\ ReadUnchanged

-----------------------------------------------------------------------------
(* Bounds and inputs.                                                      *)

StartTime == 1761800000     \* the clock at the start, seconds since the epoch
OwnerTokens == 2            \* tokens u1 starts with in the buckets it creates, updates and sends with
MaxTasks == 2               \* task ids the model hands out
MaxThreads == 2             \* thread ids the model hands out

EmptyTable == [i \in {} |-> 0]

TitleAB == Run(" ", 2) \o Run("a", 1) \o Run(" ", 3) \o Run("b", 1) \o Run(" ", 2)
BlankText == Run(" ", 3)

NoTaskArgs ==
    [title |-> Undefined, description |-> Undefined, status |-> Undefined,
     priority |-> Undefined, dueDate |-> Undefined]

\* the argument records tasks.create is called with
CreateArgs ==
    LET full == [title |-> TitleAB, description |-> Def(Run(" ", 1) \o Run("d", 3)),
                 priority |-> Def("high"), dueDate |-> Def(now)]
    IN  { full,
          [full EXCEPT !.title = BlankText],
          [full EXCEPT !.description = Def(Run("d", MAX_DESCRIPTION_LENGTH + 1))],
          [full EXCEPT !.dueDate = Def(now + FIVE_YEARS_SECONDS + 1)] }

\* the argument records tasks.update is called with
UpdateArgs ==
    { [NoTaskArgs EXCEPT !.status = Def(st)] : st \in {"pending", "in_progress", "completed"} }
    \cup
    { [NoTaskArgs EXCEPT !.title = Def(BlankText), !.status = Def("completed")],
      [NoTaskArgs EXCEPT !.description = Def(Run("d", MAX_DESCRIPTION_LENGTH + 1))],
      [NoTaskArgs EXCEPT !.dueDate = Def(now - DAY_SECONDS - 1)] }

TaskIds == 1 .. MaxTasks

NoResult == Result("none", NoUser, 0, NoArgs, "Ok", "")

\* the limiter after earlier traffic: u1 is the user who creates and edits,
\* u2 has used up its create buckets and has one token left in the others
StartTokens ==
    [u1 |-> [createTask |-> OwnerTokens, updateTask |-> OwnerTokens,
             deleteTask |-> 1, createThread |-> OwnerTokens,
             sendMessage |-> OwnerTokens],
     u2 |-> [createTask |-> 0, updateTask |-> 1, deleteTask |-> 1,
             createThread |-> 0, sendMessage |-> 1]]

StartBuckets ==
    [u \in Users |-> [b \in BucketNames |->
        PERIOD * Min(StartTokens[u][b], rateLimits[b].capacity)]]

InitTasks ==
    /\ now = StartTime
    /\ buckets = StartBuckets
    /\ rounded = NoneRounded
    /\ tasks = EmptyTable
    /\ taskBacklog \in {[u \in Users |-> 0],
                        [u \in Users |-> IF u = "u1" THEN MAX_TASKS_PER_USER - 1 ELSE 0]}
    /\ nextTaskId = 1
    /\ threads = EmptyTable
    /\ threadBacklog = [u \in Users |-> 0]
    /\ nextThreadId = 1
    /\ messages = <<>>
    /\ msgBacklog = EmptyTable
    /\ nextMsgId = 1
    /\ sends = EmptyTable
    /\ deleteTrace = <<>>
    /\ res = NoResult

NextTasks ==
    \/ \E caller \in Callers, args \in CreateArgs :
          nextTaskId <= MaxTasks /\ create(caller, args)
    \/ \E caller \in Callers, id \in TaskIds : get(caller, id)
    \/ \E caller \in Callers, id \in TaskIds, args \in UpdateArgs : update(caller, id, args)
    \/ \E caller \in Callers, id \in TaskIds : complete(caller, id)
    \/ \E caller \in Callers, id \in TaskIds : remove(caller, id)

SpecTasks == InitTasks /\ [][NextTasks]_vars

-----------------------------------------------------------------------------
(* The assistant: threads, messages and sendMessage.                       *)

ThreadIds == 1 .. MaxThreads

ContentHi == Run(" ", 2) \o Run("h", 1) \o Run("\t", 1) \o Run(" ", 2) \o Run("i", 1)
Contents == {ContentHi, BlankText, Run("m", MAX_MESSAGE_LENGTH + 1)}

\* what the agent answers: a text, or nothing when the call fails
Replies == {Def(Run("r", 2)), Undefined}

ThreadTitles == {Undefined, Def(TitleAB), Def(Run("z", MAX_THREAD_TITLE_LENGTH + 1))}

ThreadUpdateArgs ==
    { [title |-> Def(TitleAB), status |-> Undefined],
      [title |-> Undefined, status |-> Def("archived")],
      [title |-> Def(BlankText), status |-> Def("archived")] }

\* a thread of u1 made by an earlier createThread
ThreadOfU1 ==
    [userId |-> "u1", title |-> Undefined, status |-> "active",
     createdAt |-> StartTime, updatedAt |-> StartTime]

\* thread 1 exists and holds none, or nearly or exactly the maximum of messages
InitAssistant ==
    /\ now = StartTime
    /\ buckets = StartBuckets
    /\ rounded = NoneRounded
    /\ tasks = EmptyTable
    /\ taskBacklog = [u \in Users |-> 0]
    /\ nextTaskId = 1
    /\ threads = [i \in {1} |-> ThreadOfU1]
    /\ threadBacklog = [u \in Users |-> 0]
    /\ nextThreadId = 2
    /\ messages = <<>>
    /\ msgBacklog \in {[i \in {1} |-> n] :
                          n \in {0, MAX_MESSAGES_PER_THREAD - 1, MAX_MESSAGES_PER_THREAD}}
    /\ nextMsgId = 1
    /\ sends = [s \in {1} |-> Idle]
    /\ deleteTrace = <<>>
    /\ res = NoResult

\* sendMessage calls of both users and of nobody, and deleteThread between their steps
NextAssistant ==
    \/ \E caller \in Callers, id \in ThreadIds : deleteThread(caller, id)
    \/ \E slot \in DOMAIN sends, caller \in Callers, id \in ThreadIds, content \in Contents :
          sendMessage(slot, caller, id, content)
    \/ \E slot \in DOMAIN sends : sendVerifyThread(slot)
    \/ \E slot \in DOMAIN sends : sendCheckLimit(slot)
    \/ \E slot \in DOMAIN sends : sendSaveUserMessage(slot)
    \/ \E slot \in DOMAIN sends : sendLoadTasks(slot)
    \/ \E slot \in DOMAIN sends : sendLoadHistory(slot)
    \/ \E slot \in DOMAIN sends, reply \in Replies : sendCallAgent(slot, reply)
    \/ \E slot \in DOMAIN sends : sendSaveResponse(slot)

SpecAssistant == InitAssistant /\ [][NextAssistant]_vars

-----------------------------------------------------------------------------
(* Access by a caller who is not the owner: u1 owns task 1 and thread 1,   *)
(* thread 1 holds one message; every call that names a target is made by   *)
(* every caller.                                                           *)

TaskOfU1 ==
    [userId |-> "u1", title |-> sanitizeInput(TitleAB), description |-> Undefined,
     status |-> "pending", priority |-> Undefined, dueDate |-> Undefined,
     completedAt |-> Undefined, createdAt |-> StartTime, updatedAt |-> StartTime]

MessageOfU1 ==
    [id |-> 1, threadId |-> 1, userId |-> "u1", role |-> "user",
     content |-> sanitizeInput(ContentHi), createdAt |-> StartTime]

InitAccess ==
    /\ now = StartTime
    /\ buckets = StartBuckets
    /\ rounded = NoneRounded
    /\ tasks = [i \in {1} |-> TaskOfU1]
    /\ taskBacklog = [u \in Users |-> 0]
    /\ nextTaskId = 2
    /\ threads = [i \in {1} |-> ThreadOfU1]
    /\ threadBacklog = [u \in Users |-> 0]
    /\ nextThreadId = 2
    /\ messages = <<MessageOfU1>>
    /\ msgBacklog = [i \in {1} |-> 0]
    /\ nextMsgId = 2
    /\ sends = [s \in {1} |-> Idle]
    /\ deleteTrace = <<>>
    /\ res = NoResult

AccessUpdateArgs ==
    { [NoTaskArgs EXCEPT !.status = Def("completed")],
      [NoTaskArgs EXCEPT !.title = Def(BlankText)] }

\* the callers who do not own the targets
Others == {"u2", NoUser}

\* the owner deletes and sends; everything else is tried by the others only
NextAccess ==
    \/ \E caller \in Others, id \in {1} : get(caller, id)
    \/ \E caller \in Others, id \in {1}, args \in AccessUpdateArgs : update(caller, id, args)
    \/ \E caller \in Others, id \in {1} : complete(caller, id)
    \/ \E caller \in Callers, id \in {1} : remove(caller, id)
    \/ \E caller \in Others, id \in {1} : getThread(caller, id)
    \/ \E caller \in Others, id \in {1}, args \in ThreadUpdateArgs :
          updateThread(caller, id, args)
    \/ \E caller \in Callers, id \in {1} : deleteThread(caller, id)
    \/ \E slot \in DOMAIN sends, caller \in Callers, id \in {1}, content \in Contents :
          sendMessage(slot, caller, id, content)
    \/ \E slot \in DOMAIN sends : sendVerifyThread(slot)
    \/ \E slot \in DOMAIN sends : sendCheckLimit(slot)
    \/ \E slot \in DOMAIN sends : sendSaveUserMessage(slot)
    \/ \E slot \in DOMAIN sends : sendLoadTasks(slot)
    \/ \E slot \in DOMAIN sends : sendLoadHistory(slot)
    \/ \E slot \in DOMAIN sends, reply \in Replies : sendCallAgent(slot, reply)
    \/ \E slot \in DOMAIN sends : sendSaveResponse(slot)

SpecAccess == InitAccess /\ [][NextAccess]_vars

-----------------------------------------------------------------------------
(* Quotas: calls one at a time by a user who owns one task and one thread  *)
(* less than the maximum.                                                  *)

InitQuota ==
    /\ now = StartTime
    /\ buckets = StartBuckets
    /\ rounded = NoneRounded
    /\ tasks = EmptyTable
    /\ taskBacklog = [u \in Users |-> IF u = "u1" THEN MAX_TASKS_PER_USER - 1 ELSE 0]
    /\ nextTaskId = 1
    /\ threads = EmptyTable
    /\ threadBacklog = [u \in Users |-> IF u = "u1" THEN MAX_THREADS_PER_USER - 1 ELSE 0]
    /\ nextThreadId = 1
    /\ messages = <<>>
    /\ msgBacklog = EmptyTable
    /\ nextMsgId = 1
    /\ sends = EmptyTable
    /\ deleteTrace = <<>>
    /\ res = NoResult

NextQuota ==
    \/ \E caller \in Callers, args \in CreateArgs :
          nextTaskId <= MaxTasks /\ create(caller, args)
    \/ \E caller \in Callers, id \in TaskIds : remove(caller, id)
    \/ \E caller \in Callers, title \in ThreadTitles :
          nextThreadId <= MaxThreads /\ createThread(caller, title)
    \/ \E caller \in Callers, id \in ThreadIds : deleteThread(caller, id)

SpecQuota == InitQuota /\ [][NextQuota]_vars

-----------------------------------------------------------------------------
(* sendMessage calls of the owner on one thread, two of them in flight at  *)
(* a time, with steps that fail; the thread starts with few messages, with *)
(* HISTORY_LIMIT of them or more, or one below the maximum.                *)

SendSlots == {1, 2}

InitSend ==
    /\ now = StartTime
    /\ buckets = StartBuckets
    /\ rounded = NoneRounded
    /\ tasks = EmptyTable
    /\ taskBacklog = [u \in Users |-> 0]
    /\ nextTaskId = 1
    /\ threads = [i \in {1} |-> ThreadOfU1]
    /\ threadBacklog = [u \in Users |-> 0]
    /\ nextThreadId = 2
    /\ messages = <<>>
    /\ msgBacklog \in {[i \in {1} |-> n] :
                          n \in {0, HISTORY_LIMIT - 2, HISTORY_LIMIT,
                                 MAX_MESSAGES_PER_THREAD - 1}}
    /\ nextMsgId = 1
    /\ sends = [s \in SendSlots |-> Idle]
    /\ deleteTrace = <<>>
    /\ res = NoResult

NextSend ==
    \/ \E slot \in DOMAIN sends, content \in {ContentHi, BlankText} :
          sendMessage(slot, "u1", 1, content)
    \/ \E slot \in DOMAIN sends : sendVerifyThread(slot)
    \/ \E slot \in DOMAIN sends : sendCheckLimit(slot)
    \/ \E slot \in DOMAIN sends : sendSaveUserMessage(slot)
    \/ \E slot \in DOMAIN sends : sendLoadTasks(slot)
    \/ \E slot \in DOMAIN sends : sendLoadHistory(slot)
    \/ \E slot \in DOMAIN sends, reply \in Replies : sendCallAgent(slot, reply)
    \/ \E slot \in DOMAIN sends : sendSaveResponse(slot)
    \/ \E slot \in DOMAIN sends : sendStepFails(slot)

SpecSend == InitSend /\ [][NextSend]_vars

-----------------------------------------------------------------------------
(* Every endpoint, called by both users and by nobody: each user owns one  *)
(* task and one thread with one message.                                   *)

TaskOfU2 ==
    [TaskOfU1 EXCEPT !.userId = "u2", !.status = "in_progress",
                     !.dueDate = Def(StartTime - 1)]

ThreadOfU2 == [ThreadOfU1 EXCEPT !.userId = "u2"]

MessageOfU2 == [MessageOfU1 EXCEPT !.id = 2, !.threadId = 2, !.userId = "u2"]

InitEndpoints ==
    /\ now = StartTime
    /\ buckets = StartBuckets
    /\ rounded = NoneRounded
    /\ tasks = <<TaskOfU1, TaskOfU2>>
    /\ taskBacklog = [u \in Users |-> 0]
    /\ nextTaskId = 3
    /\ threads = <<ThreadOfU1, ThreadOfU2>>
    /\ threadBacklog = [u \in Users |-> 0]
    /\ nextThreadId = 3
    /\ messages = <<MessageOfU1, MessageOfU2>>
    /\ msgBacklog = [i \in {1, 2} |-> 0]
    /\ nextMsgId = 3
    /\ sends = [s \in {1} |-> Idle]
    /\ deleteTrace = <<>>
    /\ res = NoResult

EndpointCreateArgs ==
    { [title |-> TitleAB, description |-> Undefined, priority |-> Undefined,
       dueDate |-> Def(StartTime + DAY_SECONDS)] }

RecentLimits == {Undefined, Def(1)}

ArchiveArgs == {[title |-> Undefined, status |-> Def("archived")]}

CompleteArgs == {[NoTaskArgs EXCEPT !.status = Def("completed")]}

\* the caller addresses a task (thread) of their own
OwnTask(caller, id) == id \in DOMAIN tasks /\ tasks[id].userId = caller
OwnThread(caller, id) == id \in DOMAIN threads /\ threads[id].userId = caller

\* the reads, by everybody
ReadCalls ==
    \/ \E caller \in Callers : list(caller)
    \/ \E caller \in Callers, status \in {"pending", "completed"} :
          listByStatus(caller, status)
    \/ \E caller \in Callers : upcoming(caller)
    \/ \E caller \in Callers : overdue(caller)
    \/ \E caller \in Callers : stats(caller)
    \/ \E caller \in Callers, id \in TaskIds : get(caller, id)
    \/ \E caller \in Callers : listThreads(caller)
    \/ \E caller \in Callers : activeThreads(caller)
    \/ \E caller \in Callers, id \in ThreadIds : getThread(caller, id)
    \/ \E caller \in Callers : summary(caller)
    \/ \E caller \in Callers, limit \in RecentLimits : recent(caller, limit)
    \/ \E caller \in Callers : taskStats(caller)

\* the reads by everybody, while u1 creates tasks and u2 changes and deletes
\* its own data
NextReads ==
    \/ ReadCalls
    \/ \E args \in EndpointCreateArgs :
          nextTaskId <= MaxTasks + 1 /\ create("u1", args)
    \/ \E id \in TaskIds : OwnTask("u2", id) /\ complete("u2", id)
    \/ \E id \in TaskIds : OwnTask("u2", id) /\ remove("u2", id)
    \/ \E id \in ThreadIds, args \in ArchiveArgs :
          OwnThread("u2", id) /\ updateThread("u2", id, args)
    \/ \E id \in ThreadIds : OwnThread("u2", id) /\ deleteThread("u2", id)

SpecReads == InitEndpoints /\ [][NextReads]_vars

\* every endpoint called without an identity, between calls u1 makes on its
\* own data
NextUnauth ==
    \/ \E args \in EndpointCreateArgs : create(NoUser, args)
    \/ list(NoUser)
    \/ \E status \in {"pending", "completed"} : listByStatus(NoUser, status)
    \/ upcoming(NoUser)
    \/ overdue(NoUser)
    \/ stats(NoUser)
    \/ \E id \in TaskIds : get(NoUser, id)
    \/ \E id \in TaskIds, args \in CompleteArgs : update(NoUser, id, args)
    \/ \E caller \in {NoUser, "u1"}, id \in TaskIds :
          (caller = NoUser \/ OwnTask(caller, id)) /\ complete(caller, id)
    \/ \E caller \in {NoUser, "u1"}, id \in TaskIds :
          (caller = NoUser \/ OwnTask(caller, id)) /\ remove(caller, id)
    \/ \E title \in ThreadTitles : createThread(NoUser, title)
    \/ listThreads(NoUser)
    \/ activeThreads(NoUser)
    \/ \E id \in ThreadIds : getThread(NoUser, id)
    \/ \E id \in ThreadIds, args \in ArchiveArgs : updateThread(NoUser, id, args)
    \/ \E caller \in {NoUser, "u1"}, id \in ThreadIds :
          (caller = NoUser \/ OwnThread(caller, id)) /\ deleteThread(caller, id)
    \/ \E slot \in DOMAIN sends, caller \in {NoUser, "u1"}, id \in ThreadIds :
          (caller = NoUser \/ OwnThread(caller, id))
          /\ sendMessage(slot, caller, id, ContentHi)
    \/ \E slot \in DOMAIN sends : sendVerifyThread(slot)
    \/ \E slot \in DOMAIN sends : sendCheckLimit(slot)
    \/ \E slot \in DOMAIN sends : sendSaveUserMessage(slot)
    \/ \E slot \in DOMAIN sends : sendLoadTasks(slot)
    \/ \E slot \in DOMAIN sends : sendLoadHistory(slot)
    \/ \E slot \in DOMAIN sends, reply \in Replies : sendCallAgent(slot, reply)
    \/ \E slot \in DOMAIN sends : sendSaveResponse(slot)
    \/ summary(NoUser)
    \/ \E limit \in RecentLimits : recent(NoUser, limit)
    \/ taskStats(NoUser)

SpecUnauth == InitEndpoints /\ [][NextUnauth]_vars

-----------------------------------------------------------------------------
(* Calls of u1 that pass the rate limit and fail later: u1 owns one task   *)
(* and one thread less than the maximum, and thread 1 is empty or full.    *)

InitRefund ==
    /\ now = StartTime
    /\ buckets = StartBuckets
    /\ rounded = NoneRounded
    /\ tasks = EmptyTable
    /\ taskBacklog = [u \in Users |-> IF u = "u1" THEN MAX_TASKS_PER_USER - 1 ELSE 0]
    /\ nextTaskId = 1
    /\ threads = [i \in {1} |-> ThreadOfU1]
    /\ threadBacklog = [u \in Users |-> IF u = "u1" THEN MAX_THREADS_PER_USER - 2 ELSE 0]
    /\ nextThreadId = 2
    /\ messages = <<>>
    /\ msgBacklog \in {[i \in {1} |-> n] : n \in {0, MAX_MESSAGES_PER_THREAD}}
    /\ nextMsgId = 1
    /\ sends = [s \in {1} |-> Idle]
    /\ deleteTrace = <<>>
    /\ res = NoResult

NextRefund ==
    \/ \E caller \in {"u1"}, args \in CreateArgs :
          nextTaskId <= MaxTasks /\ create(caller, args)
    \/ \E caller \in {"u1"}, title \in ThreadTitles :
          nextThreadId <= MaxThreads /\ createThread(caller, title)
    \/ \E slot \in DOMAIN sends, caller \in {"u1"}, id \in ThreadIds,
          content \in {ContentHi, BlankText} : sendMessage(slot, caller, id, content)
    \/ \E slot \in DOMAIN sends : sendVerifyThread(slot)
    \/ \E slot \in DOMAIN sends : sendCheckLimit(slot)
    \/ \E slot \in DOMAIN sends : sendSaveUserMessage(slot)
    \/ \E slot \in DOMAIN sends : sendLoadTasks(slot)
    \/ \E slot \in DOMAIN sends : sendLoadHistory(slot)
    \/ \E slot \in DOMAIN sends, reply \in Replies : sendCallAgent(slot, reply)
    \/ \E slot \in DOMAIN sends : sendSaveResponse(slot)

SpecRefund == InitRefund /\ [][NextRefund]_vars

-----------------------------------------------------------------------------
(* Titles at the limits: u1 creates tasks and renames its task 1 with      *)
(* titles of length 0, 1, 200 and 201, with and without whitespace (a      *)
(* blank, a carriage return, a form feed) around.                          *)

BoundaryTitles ==
    { <<>>,
      Run("a", 1),
      Run(" ", 1),
      Run("\r", 1),
      Run("a", MAX_TITLE_LENGTH),
      Run("a", MAX_TITLE_LENGTH + 1),
      Run("a", MAX_TITLE_LENGTH) \o Run("\f", 1),
      Run("a", MAX_TITLE_LENGTH - 1) \o Run(" ", 2) \o Run("b", 1) }

InitTitles ==
    /\ now = StartTime
    /\ buckets = StartBuckets
    /\ rounded = NoneRounded
    /\ tasks = [i \in {1} |-> TaskOfU1]
    /\ taskBacklog = [u \in Users |-> 0]
    /\ nextTaskId = 2
    /\ threads = EmptyTable
    /\ threadBacklog = [u \in Users |-> 0]
    /\ nextThreadId = 1
    /\ messages = <<>>
    /\ msgBacklog = EmptyTable
    /\ nextMsgId = 1
    /\ sends = EmptyTable
    /\ deleteTrace = <<>>
    /\ res = NoResult

NextTitles ==
    \/ \E title \in BoundaryTitles :
          /\ nextTaskId <= MaxTasks + 1
          /\ create("u1", [title |-> title, description |-> Undefined,
                           priority |-> Undefined, dueDate |-> Undefined])
    \/ \E id \in TaskIds, title \in BoundaryTitles :
          OwnTask("u1", id) /\ update("u1", id, [NoTaskArgs EXCEPT !.title = Def(title)])

SpecTitles == InitTitles /\ [][NextTitles]_vars

-----------------------------------------------------------------------------
(* Stored texts: u1 creates and renames tasks and threads with titles and  *)
(* descriptions that carry blanks around and inside, at and over the       *)
(* limits.                                                                 *)

StoredTitles ==
    { TitleAB, BlankText,
      Run("a", MAX_TITLE_LENGTH) \o Run(" ", 1),
      Run("a", MAX_TITLE_LENGTH + 1) }

StoredDescriptions ==
    { Undefined, Def(<<>>), Def(Run(" ", 1) \o Run("d", 3)),
      Def(Run("d", MAX_DESCRIPTION_LENGTH - 2) \o Run("\t", 2) \o Run("e", 1)),
      Def(Run("d", MAX_DESCRIPTION_LENGTH + 1)) }

StoredThreadTitles ==
    { Undefined, Def(<<>>), Def(TitleAB),
      Def(Run("\n", 1) \o Run("z", MAX_THREAD_TITLE_LENGTH)),
      Def(Run("z", MAX_THREAD_TITLE_LENGTH + 1)) }

InitStored ==
    /\ now = StartTime
    /\ buckets = StartBuckets
    /\ rounded = NoneRounded
    /\ tasks = [i \in {1} |-> TaskOfU1]
    /\ taskBacklog = [u \in Users |-> 0]
    /\ nextTaskId = 2
    /\ threads = [i \in {1} |-> ThreadOfU1]
    /\ threadBacklog = [u \in Users |-> 0]
    /\ nextThreadId = 2
    /\ messages = <<>>
    /\ msgBacklog = [i \in {1} |-> 0]
    /\ nextMsgId = 1
    /\ sends = EmptyTable
    /\ deleteTrace = <<>>
    /\ res = NoResult

StoredCreateArgs ==
    { [title |-> title, description |-> Undefined,
       priority |-> Undefined, dueDate |-> Undefined] : title \in StoredTitles }
    \cup
    { [title |-> TitleAB, description |-> description,
       priority |-> Undefined, dueDate |-> Undefined] :
          description \in {Def(<<>>), Def(Run(" ", 1) \o Run("d", 3))} }

StoredUpdateArgs ==
    { [NoTaskArgs EXCEPT !.title = Def(title)] : title \in StoredTitles }
    \cup
    { [NoTaskArgs EXCEPT !.description = description] :
          description \in StoredDescriptions \ {Undefined} }

NextStored ==
    \/ \E args \in StoredCreateArgs : nextTaskId <= MaxTasks /\ create("u1", args)
    \/ \E args \in StoredUpdateArgs : update("u1", 1, args)
    \/ \E title \in {Undefined, Def(<<>>), Def(TitleAB)} :
          nextThreadId <= MaxThreads /\ createThread("u1", title)
    \/ \E title \in StoredThreadTitles \ {Undefined} :
          updateThread("u1", 1, [title |-> title, status |-> Undefined])

SpecStored == InitStored /\ [][NextStored]_vars

-----------------------------------------------------------------------------
(* What the agent may answer: sendMessage stores aiResponse.text as it     *)
(* comes, so the replies include the empty text and one over the limit.    *)

AgentReplies ==
    { Def(Run("r", 2)), Def(<<>>), Def(Run("r", MAX_MESSAGE_LENGTH + 1)), Undefined }

ReplyContents ==
    { ContentHi, BlankText,
      Run("m", MAX_MESSAGE_LENGTH) \o Run(" ", 1),
      Run("m", MAX_MESSAGE_LENGTH + 1) }

InitReplies ==
    /\ now = StartTime
    /\ buckets = StartBuckets
    /\ rounded = NoneRounded
    /\ tasks = EmptyTable
    /\ taskBacklog = [u \in Users |-> 0]
    /\ nextTaskId = 1
    /\ threads = [i \in {1} |-> ThreadOfU1]
    /\ threadBacklog = [u \in Users |-> 0]
    /\ nextThreadId = 2
    /\ messages = <<>>
    /\ msgBacklog = [i \in {1} |-> 0]
    /\ nextMsgId = 1
    /\ sends = [s \in {1} |-> Idle]
    /\ deleteTrace = <<>>
    /\ res = NoResult

NextReplies ==
    \/ \E slot \in DOMAIN sends, content \in ReplyContents :
          sendMessage(slot, "u1", 1, content)
    \/ \E slot \in DOMAIN sends : sendVerifyThread(slot)
    \/ \E slot \in DOMAIN sends : sendCheckLimit(slot)
    \/ \E slot \in DOMAIN sends : sendSaveUserMessage(slot)
    \/ \E slot \in DOMAIN sends : sendLoadTasks(slot)
    \/ \E slot \in DOMAIN sends : sendLoadHistory(slot)
    \/ \E slot \in DOMAIN sends, reply \in AgentReplies : sendCallAgent(slot, reply)
    \/ \E slot \in DOMAIN sends : sendSaveResponse(slot)

SpecReplies == InitReplies /\ [][NextReplies]_vars

-----------------------------------------------------------------------------
(* sanitizeInput on every string of up to MaxRuns runs of letters, blanks  *)
(* and carriage returns, as the content of one sendMessage call.           *)

MaxRuns == 3
SanitizeChars == {"a", " ", "\r"}
RunLengths == {1, 2}

RECURSIVE StringsOfRuns(_)
StringsOfRuns(k) ==
    IF k = 0 THEN {<<>>}
    ELSE LET shorter == StringsOfRuns(k - 1) IN
         shorter \cup
         { Append(s, [c |-> c, n |-> n]) :
             s \in {t \in shorter : Len(t) = k - 1}, c \in SanitizeChars,
             n \in RunLengths }

\* adjacent runs hold different characters
WellFormed(s) == \A k \in 1 .. Len(s) - 1 : s[k].c # s[k + 1].c

SanitizeInputs == {s \in StringsOfRuns(MaxRuns) : WellFormed(s)} \cup {TitleAB}

InitSanitize == InitReplies

NextSanitize ==
    \/ \E slot \in DOMAIN sends, content \in SanitizeInputs :
          /\ nextMsgId = 1
          /\ sendMessage(slot, "u1", 1, content)
    \/ \E slot \in DOMAIN sends : sendVerifyThread(slot)
    \/ \E slot \in DOMAIN sends : sendCheckLimit(slot)
    \/ \E slot \in DOMAIN sends : sendSaveUserMessage(slot)
    \/ \E slot \in DOMAIN sends : sendLoadTasks(slot)
    \/ \E slot \in DOMAIN sends : sendLoadHistory(slot)
    \/ \E slot \in DOMAIN sends, reply \in Replies : sendCallAgent(slot, reply)
    \/ \E slot \in DOMAIN sends : sendSaveResponse(slot)

SpecSanitize == InitSanitize /\ [][NextSanitize]_vars

-----------------------------------------------------------------------------
(* Bursts: u1 is a fresh user, every bucket full; it creates tasks and     *)
(* threads one after the other and may wait once, for the time of one      *)
(* createTask token or for a whole period.                                 *)

FreshBuckets ==
    [u \in Users |-> [b \in BucketNames |-> PERIOD * rateLimits[b].capacity]]

BurstCreateArgs ==
    [title |-> Run("a", 1), description |-> Undefined,
     priority |-> Undefined, dueDate |-> Undefined]

BurstWaits == {PERIOD \div rateLimits.createTask.rate, PERIOD}

InitBurst ==
    /\ now = StartTime
    /\ buckets = FreshBuckets
    /\ rounded = NoneRounded
    /\ tasks = EmptyTable
    /\ taskBacklog = [u \in Users |-> 0]
    /\ nextTaskId = 1
    /\ threads = EmptyTable
    /\ threadBacklog = [u \in Users |-> 0]
    /\ nextThreadId = 1
    /\ messages = <<>>
    /\ msgBacklog = EmptyTable
    /\ nextMsgId = 1
    /\ sends = EmptyTable
    /\ deleteTrace = <<>>
    /\ res = NoResult

NextBurst ==
    \/ /\ nextTaskId <= rateLimits.createTask.capacity + MaxTasks
       /\ create("u1", BurstCreateArgs)
    \/ /\ nextThreadId <= rateLimits.createThread.capacity + MaxThreads
       /\ createThread("u1", Undefined)
    \/ \E seconds \in BurstWaits : now = StartTime /\ Wait(seconds)

SpecBurst == InitBurst /\ [][NextBurst]_vars

-----------------------------------------------------------------------------
(* Retry-after: u1 owns task 1 and thread 1 and uses up its buckets, u2    *)
(* creates with its create buckets empty, with waits of one second in      *)
(* between, so that the time until the next token is a whole number of     *)
(* seconds for some buckets and not for others.                            *)

MaxWaitSeconds == 2

InitRetry ==
    /\ now = StartTime
    /\ buckets = StartBuckets
    /\ rounded = NoneRounded
    /\ tasks = [i \in {1} |-> TaskOfU1]
    /\ taskBacklog = [u \in Users |-> 0]
    /\ nextTaskId = 2
    /\ threads = [i \in {1} |-> ThreadOfU1]
    /\ threadBacklog = [u \in Users |-> 0]
    /\ nextThreadId = 2
    /\ messages = <<>>
    /\ msgBacklog = [i \in {1} |-> 0]
    /\ nextMsgId = 1
    /\ sends = [s \in {1} |-> Idle]
    /\ deleteTrace = <<>>
    /\ res = NoResult

NextRetry ==
    \/ nextTaskId <= MaxTasks /\ create("u2", BurstCreateArgs)
    \/ \E args \in CompleteArgs : update("u1", 1, args)
    \/ complete("u1", 1)
    \/ remove("u1", 1)
    \/ nextThreadId <= MaxThreads /\ createThread("u2", Undefined)
    \/ \E slot \in DOMAIN sends :
          sendMessage(slot, "u1", 1, BlankText)
    \/ now < StartTime + MaxWaitSeconds /\ Wait(1)

SpecRetry == InitRetry /\ [][NextRetry]_vars

-----------------------------------------------------------------------------
(* Owners: from an empty store both users create tasks and threads, send   *)
(* messages, and call the mutations on their own and on each other's       *)
(* documents.                                                              *)

OneTokenBuckets == [u \in Users |-> [b \in BucketNames |-> PERIOD]]

RenameArgs == {[NoTaskArgs EXCEPT !.title = Def(Run("n", 1))]}

InitOwners ==
    /\ now = StartTime
    /\ buckets = OneTokenBuckets
    /\ rounded = NoneRounded
    /\ tasks = EmptyTable
    /\ taskBacklog = [u \in Users |-> 0]
    /\ nextTaskId = 1
    /\ threads = EmptyTable
    /\ threadBacklog = [u \in Users |-> 0]
    /\ nextThreadId = 1
    /\ messages = <<>>
    /\ msgBacklog = EmptyTable
    /\ nextMsgId = 1
    /\ sends = [s \in {1} |-> Idle]
    /\ deleteTrace = <<>>
    /\ res = NoResult

NextOwners ==
    \/ \E caller \in Users : create(caller, BurstCreateArgs)
    \/ \E caller \in Users, id \in TaskIds, args \in RenameArgs :
          update(caller, id, args)
    \/ \E caller \in Users : createThread(caller, Undefined)
    \/ \E caller \in Users, args \in ArchiveArgs : updateThread(caller, 1, args)
    \/ \E slot \in DOMAIN sends, caller \in Users :
          sendMessage(slot, caller, 1, ContentHi)
    \/ \E slot \in DOMAIN sends : sendVerifyThread(slot)
    \/ \E slot \in DOMAIN sends : sendCheckLimit(slot)
    \/ \E slot \in DOMAIN sends : sendSaveUserMessage(slot)
    \/ \E slot \in DOMAIN sends : sendLoadTasks(slot)
    \/ \E slot \in DOMAIN sends : sendLoadHistory(slot)
    \/ \E slot \in DOMAIN sends, reply \in Replies : sendCallAgent(slot, reply)
    \/ \E slot \in DOMAIN sends : sendSaveResponse(slot)

SpecOwners == InitOwners /\ [][NextOwners]_vars

-----------------------------------------------------------------------------
(* Completion stamps: u1 moves its task 1 between the statuses and renames *)
(* it, while seconds pass.                                                 *)

StampArgs ==
    { [NoTaskArgs EXCEPT !.status = Def(st)] : st \in {"pending", "in_progress", "completed"} }
    \cup RenameArgs

NextStamp ==
    \/ \E args \in StampArgs : update("u1", 1, args)
    \/ complete("u1", 1)
    \/ now < StartTime + MaxWaitSeconds /\ Wait(1)

SpecStamp == InitTitles /\ [][NextStamp]_vars

-----------------------------------------------------------------------------
(* Exchanges: u1 owns threads 1 and 2 and sends messages into both, two    *)
(* calls at a time; the agent's reply has blanks that sanitizing would     *)
(* remove.                                                                 *)

ReplyWithBlanks == Run(" ", 1) \o Run("r", 1) \o Run(" ", 2) \o Run("s", 1)

InitExchange ==
    /\ now = StartTime
    /\ buckets = StartBuckets
    /\ rounded = NoneRounded
    /\ tasks = EmptyTable
    /\ taskBacklog = [u \in Users |-> 0]
    /\ nextTaskId = 1
    /\ threads = [i \in {1, 2} |-> ThreadOfU1]
    /\ threadBacklog = [u \in Users |-> 0]
    /\ nextThreadId = 3
    /\ messages = <<>>
    /\ msgBacklog = [i \in {1, 2} |-> 0]
    /\ nextMsgId = 1
    /\ sends = [s \in SendSlots |-> Idle]
    /\ deleteTrace = <<>>
    /\ res = NoResult

NextExchange ==
    \/ \E slot \in DOMAIN sends, id \in {1, 2} : sendMessage(slot, "u1", id, ContentHi)
    \/ \E slot \in DOMAIN sends : sendVerifyThread(slot)
    \/ \E slot \in DOMAIN sends : sendCheckLimit(slot)
    \/ \E slot \in DOMAIN sends : sendSaveUserMessage(slot)
    \/ \E slot \in DOMAIN sends : sendLoadTasks(slot)
    \/ \E slot \in DOMAIN sends : sendLoadHistory(slot)
    \/ \E slot \in DOMAIN sends, reply \in {Def(ReplyWithBlanks), Undefined} :
          sendCallAgent(slot, reply)
    \/ \E slot \in DOMAIN sends : sendSaveResponse(slot)

SpecExchange == InitExchange /\ [][NextExchange]_vars

-----------------------------------------------------------------------------
(* Rejections: u1 owns task 1 and thread 1 with one message, one document *)
(* below the quotas; the seven mutations are called by u1, by u2 and by nobody,  *)
(* on documents that exist and that do not, with fields valid and not.     *)

RejectCreateArgs == {BurstCreateArgs, [BurstCreateArgs EXCEPT !.title = BlankText]}

RejectUpdateArgs ==
    { [NoTaskArgs EXCEPT !.title = Def(Run("n", 1)),
                         !.description = Def(Run("d", MAX_DESCRIPTION_LENGTH + 1))],
      [NoTaskArgs EXCEPT !.status = Def("completed"),
                         !.dueDate = Def(StartTime - DAY_SECONDS - 1)],
      [NoTaskArgs EXCEPT !.status = Def("in_progress")] }

RejectThreadArgs ==
    { [title |-> Def(BlankText), status |-> Def("archived")],
      [title |-> Undefined, status |-> Def("archived")] }

InitRejects ==
    /\ now = StartTime
    /\ buckets = StartBuckets
    /\ rounded = NoneRounded
    /\ tasks = [i \in {1} |-> TaskOfU1]
    /\ taskBacklog = [u \in Users |-> IF u = "u1" THEN MAX_TASKS_PER_USER - 2 ELSE 0]
    /\ nextTaskId = 2
    /\ threads = [i \in {1} |-> ThreadOfU1]
    /\ threadBacklog = [u \in Users |-> IF u = "u1" THEN MAX_THREADS_PER_USER - 2 ELSE 0]
    /\ nextThreadId = 2
    /\ messages = <<MessageOfU1>>
    /\ msgBacklog = [i \in {1} |-> 0]
    /\ nextMsgId = 2
    /\ sends = EmptyTable
    /\ deleteTrace = <<>>
    /\ res = NoResult

NextRejects ==
    \/ \E caller \in Callers, args \in RejectCreateArgs :
          nextTaskId <= MaxTasks + 1 /\ create(caller, args)
    \/ \E caller \in {"u1", NoUser}, args \in RejectUpdateArgs : update(caller, 1, args)
    \/ \E caller \in {"u2", NoUser} : complete(caller, 1)
    \/ \E caller \in {"u1", NoUser} : remove(caller, MaxTasks + 2)
    \/ \E caller \in Callers, title \in {Undefined, Def(Run("z", MAX_THREAD_TITLE_LENGTH + 1))} :
          nextThreadId <= MaxThreads + 1 /\ createThread(caller, title)
    \/ \E caller \in Callers, args \in RejectThreadArgs : updateThread(caller, 1, args)
    \/ \E caller \in Callers, id \in {1, MaxThreads + 2} : deleteThread(caller, id)

SpecRejects == InitRejects /\ [][NextRejects]_vars

-----------------------------------------------------------------------------
(* Due dates: u1 creates tasks and updates its task 1 with due dates at    *)
(* and around both ends of the window, and with 0, while seconds pass.     *)

DueDates ==
    { Def(0),
      Def(now - DAY_SECONDS - 1), Def(now - DAY_SECONDS), Def(now),
      Def(now + FIVE_YEARS_SECONDS), Def(now + FIVE_YEARS_SECONDS + 1) }

NextDueDates ==
    \/ \E dueDate \in DueDates :
          /\ nextTaskId <= MaxTasks + 1
          /\ create("u1", [BurstCreateArgs EXCEPT !.dueDate = dueDate])
    \/ \E dueDate \in DueDates :
          update("u1", 1, [NoTaskArgs EXCEPT !.dueDate = dueDate])
    \/ now < StartTime + MaxWaitSeconds /\ Wait(1)

SpecDueDates == InitTitles /\ [][NextDueDates]_vars

-----------------------------------------------------------------------------
(* Properties.  In a step formula the unprimed variables are the store     *)
(* before the call and res' is the record of the call the step made.       *)

\* the step is a call of the query or mutation op (not a step of sendMessage)
Called(op) == res'.op = op /\ sends' = sends /\ now' = now

\* the class of the first check that fails, checks being <<failed, class>> pairs
RECURSIVE FirstFailing(_)
FirstFailing(checks) ==
    IF checks = <<>> THEN "Ok"
    ELSE IF Head(checks)[1] THEN Head(checks)[2]
    ELSE FirstFailing(Tail(checks))

\* the bucket is exhausted for the user
Exhausted(name, user) == user \in Users /\ buckets[user][name] < PERIOD

\* the bucket each rate-limited task mutation consumes from
TaskBucketOf(op) ==
    IF op = "tasks.create" THEN "createTask"
    ELSE IF op = "tasks.remove" THEN "deleteTask"
    ELSE "updateTask"

TaskExists(id) == id \in DOMAIN tasks
ThreadExists(id) == id \in DOMAIN threads

InvalidCreateArgs(args) ==
    \/ ~isValidTaskTitle(sanitizeInput(args.title))
    \/ /\ truthyString(args.description)
       /\ ~isValidTaskDescription(sanitizeInput(Val(args.description)))
    \/ truthyNumber(args.dueDate) /\ ~isValidDueDate(Val(args.dueDate), now)

InvalidUpdateArgs(args) ==
    \/ args.title # Undefined /\ ~isValidTaskTitle(sanitizeInput(Val(args.title)))
    \/ /\ args.description # Undefined
       /\ ~isValidTaskDescription(sanitizeInput(Val(args.description)))
    \/ args.dueDate # Undefined /\ ~isValidDueDate(Val(args.dueDate), now)

NotAuthorizedMessages ==
    { "Not authorized to view this task", "Not authorized to update this task",
      "Not authorized to delete this task", "Not authorized to view this thread",
      "Not authorized to update this thread", "Not authorized to delete this thread",
      "Not authorized to send messages in this thread" }

\* C1, task calls: a call on an existing task by an authenticated caller who
\* does not own it is Forbidden (RateLimited when the mutation's bucket is
\* exhausted, before the task is loaded) and changes no task
NonOwnerTaskCall ==
    \A op \in {"tasks.get", "tasks.update", "tasks.complete", "tasks.remove"} :
        ( /\ Called(op)
          /\ res'.caller \in Users
          /\ TaskExists(res'.id)
          /\ tasks[res'.id].userId # res'.caller )
        => /\ res'.outcome =
                 IF op # "tasks.get" /\ Exhausted(TaskBucketOf(op), res'.caller)
                 THEN "RateLimited" ELSE "Forbidden"
           /\ res'.outcome = "Forbidden" => res'.msg \in NotAuthorizedMessages
           /\ tasks' = tasks

\* C1, thread calls: the same for getThread, updateThread and deleteThread,
\* which keep the thread and its messages
NonOwnerThreadCall ==
    \A op \in {"getThread", "updateThread", "deleteThread"} :
        ( /\ Called(op)
          /\ res'.caller \in Users
          /\ ThreadExists(res'.id)
          /\ threads[res'.id].userId # res'.caller )
        => /\ res'.outcome = "Forbidden"
           /\ res'.msg \in NotAuthorizedMessages
           /\ threads' = threads
           /\ messages' = messages /\ msgBacklog' = msgBacklog

\* C1, sendMessage: the step that loads an existing thread of another user
\* ends the call with Forbidden and stores nothing
NonOwnerSend ==
    \A slot \in DOMAIN sends :
        ( /\ sends[slot].pc = "thread"
          /\ sends'[slot] # sends[slot]
          /\ ThreadExists(sends[slot].threadId)
          /\ threads[sends[slot].threadId].userId # sends[slot].caller )
        => /\ sends'[slot] = Idle
           /\ res'.op = "sendMessage" /\ res'.caller = sends[slot].caller
           /\ res'.outcome = "Forbidden" /\ res'.msg \in NotAuthorizedMessages
           /\ threads' = threads
           /\ messages' = messages /\ msgBacklog' = msgBacklog

\* C1: a caller who is not the owner of a task or thread is never served and
\* never told NotFound: once the target is loaded the call is rejected with
\* Forbidden, and the target and its messages stay as they were
C1_NonOwnerForbidden ==
    [][NonOwnerTaskCall /\ NonOwnerThreadCall /\ NonOwnerSend]_vars

C1_Witness ==
    /\ res.op = "sendMessage" /\ res.caller = "u2" /\ res.outcome = "Forbidden"
    /\ ThreadExists(res.id) /\ threads[res.id].userId = "u1"

\* C2: in every state every stored task has completedAt set exactly when
\* its status is completed
C2_CompletedAtIffCompleted ==
    \A id \in DOMAIN tasks :
        (tasks[id].completedAt # Undefined) <=> (tasks[id].status = "completed")

C2_Witness ==
    /\ res.op = "tasks.update" /\ res.outcome = "Ok"
    /\ res.args.status = Def("in_progress")
    /\ TaskExists(res.id)
    /\ tasks[res.id].status = "in_progress" /\ tasks[res.id].completedAt = Undefined
    /\ \E other \in DOMAIN tasks : tasks[other].completedAt = Def(now)

\* C3: an update whose requested status is not allowed by the transition
\* table for the stored status is rejected and leaves the task unchanged
C3_TransitionTableEnforced ==
    [][ ( /\ Called("tasks.update")
          /\ TaskExists(res'.id)
          /\ res'.args.status # Undefined
          /\ Val(res'.args.status) \notin VALID_STATUS_TRANSITIONS[tasks[res'.id].status] )
        => res'.outcome # "Ok" /\ tasks' = tasks ]_vars

\* C4: every stored message belongs to a thread that exists
C4_NoOrphanedMessages ==
    /\ \A k \in 1 .. Len(messages) : ThreadExists(messages[k].threadId)
    /\ \A t \in DOMAIN msgBacklog : msgBacklog[t] > 0 => ThreadExists(t)

\* C5: a successful deleteThread on a thread with N messages leaves the
\* thread absent and none of its messages, and after no write of the
\* handler is the thread absent while a message of it is stored
C5_DeleteThreadOrder ==
    [][ \A t \in ThreadIds :
          ( Called("deleteThread") /\ res'.outcome = "Ok" /\ res'.id = t )
          => /\ ~ThreadExists(t)'
             /\ countMessagesInThread(t)' = 0
             /\ deleteTrace'[1] = [threadId |-> t, thread |-> TRUE,
                                   messages |-> countMessagesInThread(t)]
             /\ Len(deleteTrace') > 1
             /\ deleteTrace'[Len(deleteTrace')] =
                    [threadId |-> t, thread |-> FALSE, messages |-> 0]
             /\ \A k \in 1 .. Len(deleteTrace') :
                    ~deleteTrace'[k].thread => deleteTrace'[k].messages = 0 ]_vars

C5_Witness ==
    /\ res.op = "deleteThread" /\ res.outcome = "Ok"
    /\ deleteTrace # <<>> /\ deleteTrace[1].messages > 0
    /\ ~ThreadExists(res.id)

\* C6: no thread ever holds more than MAX_MESSAGES_PER_THREAD messages
C6_MessagesWithinLimit ==
    \A t \in DOMAIN msgBacklog : countMessagesInThread(t) <= MAX_MESSAGES_PER_THREAD

\* C7: with calls one at a time, a valid create (createThread) that passes
\* the rate limit fails with QuotaExceeded and inserts nothing when the
\* caller owns the maximum, succeeds and inserts one below it, and no user
\* ever owns more than the maximum
C7_QuotaEnforced ==
    [][ \A u \in Users :
        /\ ( /\ Called("tasks.create")
             /\ res'.caller = u
             /\ ~Exhausted("createTask", u)
             /\ ~InvalidCreateArgs(res'.args) )
           => IF countTasksByUser(u) >= MAX_TASKS_PER_USER
              THEN res'.outcome = "QuotaExceeded" /\ tasks' = tasks
              ELSE /\ res'.outcome = "Ok"
                   /\ countTasksByUser(u)' = countTasksByUser(u) + 1
        /\ ( /\ Called("createThread")
             /\ res'.caller = u
             /\ ~Exhausted("createThread", u)
             /\ ~( /\ truthyString(res'.args.title)
                   /\ ~isValidThreadTitle(sanitizeInput(Val(res'.args.title))) ) )
           => IF countThreadsByUser(u) >= MAX_THREADS_PER_USER
              THEN res'.outcome = "QuotaExceeded" /\ threads' = threads
              ELSE /\ res'.outcome = "Ok"
                   /\ countThreadsByUser(u)' = countThreadsByUser(u) + 1
        /\ countTasksByUser(u)' <= MAX_TASKS_PER_USER
        /\ countThreadsByUser(u)' <= MAX_THREADS_PER_USER ]_vars

C7_Witness ==
    /\ res.op = "tasks.create" /\ res.outcome = "QuotaExceeded"
    /\ countTasksByUser(res.caller) = MAX_TASKS_PER_USER
    /\ DOMAIN tasks # {} /\ DOMAIN threads # {}

\* what sendMessage must answer given what the call saw: the first violated
\* of identity, rate limit, content, thread, ownership, message quota
SendExpected(call) ==
    FirstFailing(<<
        <<call.caller = NoUser, "Unauthenticated">>,
        <<call.caller # NoUser /\ Val(call.limited), "RateLimited">>,
        <<~isValidMessageContent(sanitizeInput(call.raw)), "InvalidInput">>,
        <<call.thread = Undefined, "NotFound">>,
        <<call.thread # Undefined /\ Val(call.thread).userId # call.caller, "Forbidden">>,
        <<call.messageCount # Undefined
              /\ Val(call.messageCount) >= MAX_MESSAGES_PER_THREAD, "QuotaExceeded">> >>)

\* the call passed all six preconditions
SendPassed(call) ==
    /\ call.pc # "idle"
    /\ SendExpected(call) = "Ok"
    /\ call.thread # Undefined /\ call.messageCount # Undefined

\* C8: sendMessage fails with the error of the first violated precondition,
\* in the order identity, rate limit, content, thread, ownership, quota, and
\* persists nothing and does not call the agent unless all six pass
C8_SendPreconditionOrder ==
    [][ /\ res'.op = "sendMessage" =>
              IF SendExpected(res'.locals) # "Ok"
              THEN /\ res'.outcome = SendExpected(res'.locals)
                   /\ res'.locals.userMessageId = Undefined
                   /\ ~res'.locals.agentCalled
              ELSE res'.outcome \in {"Ok", "AgentError"}
        /\ Len(messages') > Len(messages) =>
              \E slot \in DOMAIN sends :
                  /\ SendPassed(sends[slot])
                  /\ messages'[Len(messages')].threadId = sends[slot].threadId
                  /\ messages'[Len(messages')].userId = sends[slot].caller
        /\ \A slot \in DOMAIN sends :
              ( sends'[slot].pc # "idle"
                /\ (sends'[slot].agentCalled \/ sends'[slot].userMessageId # Undefined) )
              => SendPassed(sends'[slot]) ]_vars

C8_Witness ==
    /\ res.op = "sendMessage" /\ res.outcome = "RateLimited"
    /\ ~isValidMessageContent(sanitizeInput(res.locals.raw))
    /\ ~ThreadExists(res.id)

\* the original C9: an update with an invalid field fails with InvalidInput
\* whatever the target is
C9_ValidationBeforeLoad ==
    ( /\ res.op = "tasks.update"
      /\ res.caller \in Users
      /\ res.outcome # "RateLimited"
      /\ InvalidUpdateArgs(res.args) )
    => res.outcome = "InvalidInput"

\* the checks of each task mutation, in the order the amended C9 states
TaskExpected(op, caller, id, args) ==
    LET identity == <<caller = NoUser, "Unauthenticated">>
        rate     == <<Exhausted(TaskBucketOf(op), caller), "RateLimited">>
        missing  == <<~TaskExists(id), "NotFound">>
        foreign  == <<TaskExists(id) /\ tasks[id].userId # caller, "Forbidden">>
    IN  IF op = "tasks.create"
        THEN FirstFailing(<<identity, rate,
                 <<InvalidCreateArgs(args), "InvalidInput">>,
                 <<caller \in Users /\ countTasksByUser(caller) >= MAX_TASKS_PER_USER,
                   "QuotaExceeded">> >>)
        ELSE IF op = "tasks.update"
        THEN FirstFailing(<<identity, rate, missing, foreign,
                 <<InvalidUpdateArgs(args), "InvalidInput">> >>)
        ELSE FirstFailing(<<identity, rate, missing, foreign>>)

\* C9, amended: every task mutation checks identity, then the rate limit;
\* create then validates the fields and then checks the quota; update,
\* complete and remove then load the target and check its owner, and update
\* validates the supplied fields only after that
C9_TaskCheckOrder ==
    [][ \A op \in {"tasks.create", "tasks.update", "tasks.complete", "tasks.remove"} :
            Called(op) =>
                res'.outcome = TaskExpected(op, res'.caller,
                                   IF op = "tasks.create" THEN 0 ELSE res'.id, res'.args) ]_vars

C9_Witness ==
    /\ res.op = "tasks.update" /\ res.caller = "u2"
    /\ InvalidUpdateArgs(res.args)
    /\ res.outcome = "Forbidden"

\* C10: the step of sendMessage that counts the messages of a thread holding
\* MAX_MESSAGES_PER_THREAD or more ends the call with QuotaExceeded; nothing
\* was persisted and the agent was not called
C10_QuotaBeforeAgent ==
    [][ \A slot \in DOMAIN sends :
            ( /\ sends[slot].pc = "count"
              /\ sends'[slot] # sends[slot]
              /\ countMessagesInThread(sends[slot].threadId) >= MAX_MESSAGES_PER_THREAD )
            => /\ sends'[slot] = Idle
               /\ res'.op = "sendMessage" /\ res'.outcome = "QuotaExceeded"
               /\ res'.locals.userMessageId = Undefined
               /\ ~res'.locals.agentCalled
               /\ messages' = messages /\ msgBacklog' = msgBacklog ]_vars

C10_Witness ==
    /\ res.op = "sendMessage" /\ res.outcome = "QuotaExceeded"
    /\ res.locals.userMessageId = Undefined /\ ~res.locals.agentCalled
    /\ countMessagesInThread(res.id) >= MAX_MESSAGES_PER_THREAD

\* the stored message with the given id, as a set (empty when there is none)
StoredMessage(id) == {messages[k] : k \in {j \in 1 .. Len(messages) : messages[j].id = id}}

\* C11: a sendMessage call that ends in failure after its user message was
\* persisted (at the task load, the history load, the agent call or the save
\* of the reply) is rejected and writes nothing in that step: the user
\* message stays stored with role user, no assistant message is recorded for
\* the call, the call is not resumed, and no stored message is ever removed
C11_FailureKeepsUserMessage ==
    [][ /\ \A slot \in DOMAIN sends :
              ( /\ sends[slot].pc \in {"tasks", "history", "agent", "reply"}
                /\ sends'[slot] = Idle
                /\ res'.outcome # "Ok" )
              => /\ res'.op = "sendMessage"
                 /\ res'.outcome \in {"AgentError", "InternalError"}
                 /\ messages' = messages
                 /\ res'.locals.assistantMessageId = Undefined
                 /\ \E k \in 1 .. Len(messages') :
                        /\ messages'[k].id = Val(sends[slot].userMessageId)
                        /\ messages'[k].role = "user"
                        /\ messages'[k].threadId = sends[slot].threadId
                        /\ messages'[k].content = sends[slot].sanitizedContent
        /\ Len(messages') >= Len(messages)
        /\ SubSeq(messages', 1, Len(messages)) = messages ]_vars

C11_Witness ==
    /\ res.op = "sendMessage" /\ res.outcome = "AgentError"
    /\ res.locals.userMessageId # Undefined
    /\ \E m \in StoredMessage(Val(res.locals.userMessageId)) : m.role = "user"
    /\ \A k \in 1 .. Len(messages) : messages[k].role = "user"

\* the messages of the thread stored before the message with id uid, oldest first
PriorMessages(threadId, uid) ==
    SelectSeq(messages, LAMBDA m : m.threadId = threadId /\ m.id < uid)

\* C12: the history that the history step of sendMessage builds is the
\* min(HISTORY_LIMIT, k) most recent of the k messages the thread held before
\* the user message just inserted, oldest first, without that message
C12_HistoryIsLastTenPrior ==
    [][ \A slot \in DOMAIN sends :
            ( sends[slot].pc = "history" /\ sends'[slot].pc = "agent" )
            => LET history == Val(sends'[slot].conversationHistory)
                   prior == PriorMessages(sends[slot].threadId,
                                          Val(sends[slot].userMessageId))
                   k == Len(prior) + backlogOf(sends[slot].threadId)
                   stored == Min(Min(HISTORY_LIMIT, k), Len(prior))
               IN  /\ history.ids =
                          [j \in 1 .. stored |-> prior[Len(prior) - stored + j].id]
                   /\ history.older = Min(HISTORY_LIMIT, k) - stored ]_vars

\* the step takes exactly one token from one bucket of the user
ConsumedOne(user) ==
    \E b \in BucketNames :
        /\ buckets[user][b] >= PERIOD
        /\ buckets' = [buckets EXCEPT ![user][b] = @ - PERIOD]

StoreUnchanged == UNCHANGED <<taskVars, threadVars, messageVars>>

MutationNames ==
    {"tasks.create", "tasks.update", "tasks.complete", "tasks.remove",
     "createThread", "updateThread", "deleteThread"}

\* the step is the first transaction of a sendMessage call
SendStarted ==
    \E slot \in DOMAIN sends :
        /\ sends[slot].pc = "idle"
        /\ \/ sends'[slot].pc = "thread"
           \/ sends' = sends /\ res'.op = "sendMessage" /\ res'.locals.pc = "thread"

\* C13: every call of a mutating endpoint by a user takes one token from a
\* bucket of that user, or is rejected with RateLimited and leaves the store
\* and the buckets as they were
C13_MutationsRateLimited ==
    [][ /\ \A op \in MutationNames :
              ( Called(op) /\ res'.caller \in Users )
              => \/ ConsumedOne(res'.caller)
                 \/ /\ res'.outcome = "RateLimited"
                    /\ buckets' = buckets /\ StoreUnchanged
        /\ \A u \in Users :
              ( SendStarted /\ buckets'[u] # buckets[u] ) => ConsumedOne(u)
        /\ ( SendStarted /\ buckets' = buckets /\ res'.caller \in Users )
              => res'.outcome = "RateLimited" /\ StoreUnchanged ]_vars

\* the limiter with one token less in the bucket of the user
OneLess(name, user) == [buckets EXCEPT ![user][name] = @ - PERIOD]

\* C14: a create, createThread or sendMessage of a user whose bucket holds a
\* token takes that token whatever the call answers afterwards (InvalidInput,
\* QuotaExceeded, NotFound, ...), and no later step of the call and no
\* other step gives a token back
C14_NoRefund ==
    [][ /\ \A u \in Users :
            /\ ( Called("tasks.create") /\ res'.caller = u /\ ~Exhausted("createTask", u) )
               => buckets' = OneLess("createTask", u)
            /\ ( Called("createThread") /\ res'.caller = u
                   /\ ~Exhausted("createThread", u) )
               => buckets' = OneLess("createThread", u)
            /\ ( /\ SendStarted
                 /\ \/ \E slot \in DOMAIN sends : sends'[slot].pc = "thread"
                                                    /\ sends'[slot].caller = u
                    \/ sends' = sends /\ res'.caller = u
                 /\ ~Exhausted("sendMessage", u) )
               => buckets' = OneLess("sendMessage", u)
        /\ ( \E slot \in DOMAIN sends : sends[slot].pc # "idle" /\ sends'[slot] # sends[slot] )
              => buckets' = buckets
        /\ \A u \in Users, b \in BucketNames : buckets'[u][b] <= buckets[u][b] ]_vars

\* C15: the message quota of sendMessage is read-then-act: the step that
\* counts reads a count below the maximum and reserves nothing, the step
\* that saves inserts without counting again (or throws and writes nothing),
\* so that two calls on one thread that both counted before either saved
\* both insert; the count then passes the maximum, by no more than the two
\* messages of each call in flight
C15_ReadThenAct ==
    [][ \A slot \in DOMAIN sends, t \in ThreadIds :
          ( sends[slot].pc # "idle" /\ sends[slot].threadId = t )
          => /\ ( sends[slot].pc = "count" /\ sends'[slot].pc = "save" )
                => /\ Val(sends'[slot].messageCount) = countMessagesInThread(t)
                   /\ Val(sends'[slot].messageCount) < MAX_MESSAGES_PER_THREAD
                   /\ messages' = messages /\ msgBacklog' = msgBacklog
             /\ ( sends[slot].pc = "save" /\ sends'[slot] # sends[slot] )
                => \/ /\ sends'[slot].pc = "tasks"
                      /\ countMessagesInThread(t)' = countMessagesInThread(t) + 1
                   \/ /\ sends'[slot] = Idle
                      /\ res'.outcome = StepFailed[1]
                      /\ messages' = messages /\ msgBacklog' = msgBacklog
             /\ countMessagesInThread(t)' <=
                    MAX_MESSAGES_PER_THREAD - 1 + 2 * Cardinality(DOMAIN sends) ]_vars

C15_Witness ==
    /\ \A slot \in DOMAIN sends :
          /\ sends[slot].pc \in {"tasks", "history", "agent", "reply"}
          /\ sends[slot].threadId = 1
          /\ Val(sends[slot].messageCount) = MAX_MESSAGES_PER_THREAD - 1
          /\ sends[slot].userMessageId # Undefined
    /\ Cardinality(DOMAIN sends) = 2
    /\ countMessagesInThread(1) > MAX_MESSAGES_PER_THREAD

TaskListReads == {"tasks.list", "tasks.listByStatus", "tasks.upcoming", "tasks.overdue",
                  "dashboard.recent"}
ThreadListReads == {"listThreads", "activeThreads"}
CountReads == {"tasks.stats", "dashboard.taskStats"}
ScopedReads == TaskListReads \cup ThreadListReads \cup CountReads \cup {"dashboard.summary"}

OwnedTasks(u) == {i \in DOMAIN tasks : tasks[i].userId = u}
OwnedThreads(u) == {i \in DOMAIN threads : threads[i].userId = u}
OwnedMessages(u) == {k \in 1 .. Len(messages) : messages[k].userId = u}

\* everything the by-owner reads answer to user u
Views(u) ==
    [list      |-> getTasksByUser(u),
     byStatus  |-> [st \in {"pending", "in_progress", "completed"} |->
                       getTasksByUserAndStatus(u, st)],
     upcoming  |-> getUpcomingTasks(u),
     overdue   |-> getOverdueTasks(u),
     stats     |-> countTasksByStatus(u),
     threads   |-> getThreadsByUser(u),
     active    |-> getActiveThreads(u),
     summary   |-> loadSummary(Def(u)),
     recent    |-> [n \in {1, DEFAULT_RECENT_LIMIT} |-> loadRecent(u, n)]]

\* the answer of a read made by user u holds and counts records of u only
OnlyOwn(op, u, value) ==
    /\ op \in TaskListReads =>
          \A k \in 1 .. Len(value) : value[k] \in OwnedTasks(u)
    /\ op \in ThreadListReads =>
          \A k \in 1 .. Len(value) : value[k] \in OwnedThreads(u)
    /\ op \in CountReads =>
          \A st \in DOMAIN value :
              value[st] = Cardinality({i \in OwnedTasks(u) : tasks[i].status = st})
    /\ op = "dashboard.summary" =>
          /\ value.perTable.tasks = Cardinality(OwnedTasks(u))
          /\ value.perTable.threads = Cardinality(OwnedThreads(u))
          /\ value.perTable.messages = Cardinality(OwnedMessages(u))
          /\ value.totalRecords = Cardinality(OwnedTasks(u))
                + Cardinality(OwnedThreads(u)) + Cardinality(OwnedMessages(u))
          /\ \A st \in {"pending", "in_progress", "completed"} :
                Val(value.taskStats)[st] =
                    Cardinality({i \in OwnedTasks(u) : tasks[i].status = st})

\* C16: a by-owner read made by user u answers and counts records of u only
\* and takes no user from its arguments, and no call made by anybody else
\* (creating, changing or deleting their data) changes any answer u gets
C16_ReadsSelfScoped ==
    [][ \A u \in Users :
          /\ \A op \in ScopedReads :
                ( Called(op) /\ res'.caller = u )
                => /\ res'.outcome = "Ok"
                   /\ OnlyOwn(op, u, Val(res'.value))
                   /\ DOMAIN res'.args \subseteq {"none", "status", "limit"}
          /\ ( res'.caller # u /\ <<now, tasks, threads, messages>>' #
                                      <<now, tasks, threads, messages>> )
                => Views(u)' = Views(u) ]_vars

C16_Witness ==
    /\ res.op = "dashboard.summary" /\ res.caller = "u1" /\ res.outcome = "Ok"
    /\ Val(res.value).perTable.tasks = 2
    /\ Val(res.value).perTable.messages = 1
    /\ Val(res.value).totalRecords = 4
    /\ OwnedTasks("u2") # {} /\ OwnedMessages("u2") # {}
    /\ \E i \in OwnedTasks("u2") : tasks[i].status = "completed"

EndpointNames ==
    MutationNames \cup ScopedReads \cup {"tasks.get", "getThread", "sendMessage"}

\* C17: a call of any endpoint without an identity fails with
\* Unauthenticated ('Not authenticated'), takes no token, leaves the store
\* and the calls in flight as they were, answers no data and calls no agent
C17_UnauthenticatedFirst ==
    [][ ( res' # res /\ res'.caller = NoUser )
        => /\ res'.op \in EndpointNames
           /\ res'.outcome = "Unauthenticated"
           /\ res'.msg = "Not authenticated"
           /\ buckets' = buckets
           /\ StoreUnchanged
           /\ sends' = sends
           /\ "value" \in DOMAIN res' => res'.value = Undefined
           /\ res'.op = "sendMessage" =>
                  /\ ~res'.locals.agentCalled
                  /\ res'.locals.userMessageId = Undefined
                  /\ res'.locals.thread = Undefined ]_vars

C17_Witness ==
    /\ res.op = "sendMessage" /\ res.caller = NoUser /\ res.outcome = "Unauthenticated"
    /\ res.id \in DOMAIN threads
    /\ Len(messages) > 2
    /\ \E u \in Users : buckets[u] # StartBuckets[u]

ReadNames == ScopedReads \cup {"tasks.get", "getThread"}

\* C18: a read, whether it answers or fails (Unauthenticated, NotFound,
\* Forbidden), takes no token and changes no task, thread or message
C18_ReadsChangeNothing ==
    [][ \A op \in ReadNames :
            Called(op) => /\ buckets' = buckets
                          /\ StoreUnchanged
                          /\ deleteTrace' = deleteTrace ]_vars

C18_Witness ==
    /\ res.op = "tasks.get" /\ res.caller = "u2" /\ res.outcome = "Forbidden"
    /\ \E i \in OwnedTasks("u2") : tasks[i].status = "completed"
    /\ buckets["u2"]["updateTask"] = StartBuckets["u2"]["updateTask"] - PERIOD
    /\ tasks[res.id] = TaskOfU1

\* the call is a create or an update of an own task by a user whose bucket
\* holds a token and who is below the task quota; title is the title supplied
TitleCall(op, title) ==
    /\ Called(op)
    /\ res'.caller \in Users
    /\ ~Exhausted(TaskBucketOf(op), res'.caller)
    /\ IF op = "tasks.create"
       THEN /\ countTasksByUser(res'.caller) < MAX_TASKS_PER_USER
            /\ title = res'.args.title
       ELSE /\ TaskExists(res'.id) /\ tasks[res'.id].userId = res'.caller
            /\ res'.args.title # Undefined
            /\ title = Val(res'.args.title)

\* the original C19: a supplied title of length 0 or 201 fails with
\* InvalidInput, one of length 1 or 200 succeeds
C19_TitleLengthBounds ==
    [][ \A op \in {"tasks.create", "tasks.update"}, title \in BoundaryTitles :
            TitleCall(op, title)
            => /\ StrLen(title) \in {0, MAX_TITLE_LENGTH + 1}
                  => res'.outcome = "InvalidInput"
               /\ StrLen(title) \in {1, MAX_TITLE_LENGTH} => res'.outcome = "Ok" ]_vars

\* C19, amended: the length that counts is that of the sanitized title
\* (trimmed, whitespace runs collapsed): 0 or 201 fails with InvalidInput,
\* 1 or 200 succeeds
C19_SanitizedTitleBounds ==
    [][ \A op \in {"tasks.create", "tasks.update"}, title \in BoundaryTitles :
            TitleCall(op, title)
            => /\ StrLen(sanitizeInput(title)) \in {0, MAX_TITLE_LENGTH + 1}
                  => /\ res'.outcome = "InvalidInput"
                     /\ res'.msg = InvalidTitle[2]
                     /\ tasks' = tasks
               /\ StrLen(sanitizeInput(title)) \in {1, MAX_TITLE_LENGTH}
                  => /\ res'.outcome = "Ok"
                     /\ tasks'[res'.id].title = sanitizeInput(title) ]_vars

C19_Witness ==
    /\ res.op = "tasks.update" /\ res.outcome = "Ok"
    /\ StrLen(Val(res.args.title)) = MAX_TITLE_LENGTH + 1
    /\ StrLen(tasks[res.id].title) = MAX_TITLE_LENGTH
    /\ \E i \in DOMAIN tasks : StrLen(tasks[i].title) = 1

\* trimmed, and every whitespace run is one space
IsSanitized(s) ==
    /\ s # <<>> => ~IsWhitespace(s[1].c) /\ ~IsWhitespace(s[Len(s)].c)
    /\ \A k \in 1 .. Len(s) : IsWhitespace(s[k].c) => s[k] = [c |-> " ", n |-> 1]
    /\ \A k \in 1 .. Len(s) - 1 : ~(IsWhitespace(s[k].c) /\ IsWhitespace(s[k + 1].c))

\* C20: every stored task title and description and every stored thread
\* title is a fixed point of sanitizeInput (trimmed, whitespace runs one
\* space); task titles have 1..200 characters, descriptions at most 5000,
\* thread titles, when present, 1..100
C20_StoredTextsSanitized ==
    /\ \A i \in DOMAIN tasks :
          /\ sanitizeInput(tasks[i].title) = tasks[i].title
          /\ IsSanitized(tasks[i].title)
          /\ StrLen(tasks[i].title) \in 1 .. MAX_TITLE_LENGTH
          /\ tasks[i].description # Undefined
             => /\ sanitizeInput(Val(tasks[i].description)) = Val(tasks[i].description)
                /\ IsSanitized(Val(tasks[i].description))
                /\ StrLen(Val(tasks[i].description)) <= MAX_DESCRIPTION_LENGTH
    /\ \A i \in DOMAIN threads :
          threads[i].title # Undefined
          => /\ sanitizeInput(Val(threads[i].title)) = Val(threads[i].title)
             /\ IsSanitized(Val(threads[i].title))
             /\ StrLen(Val(threads[i].title)) \in 1 .. MAX_THREAD_TITLE_LENGTH

\* a renamed task and a created thread hold the sanitized form of titles
\* supplied with blanks, at the limits
C20_Witness ==
    /\ res.op = "tasks.update" /\ res.outcome = "Ok"
    /\ res.args.title = Def(Run("a", MAX_TITLE_LENGTH) \o Run(" ", 1))
    /\ tasks[1].title = Run("a", MAX_TITLE_LENGTH)
    /\ tasks[1].description
         = Def(Run("d", MAX_DESCRIPTION_LENGTH - 2) \o Run(" ", 1) \o Run("e", 1))
    /\ \E i \in DOMAIN threads : threads[i].title = Def(Run("z", MAX_THREAD_TITLE_LENGTH))
    /\ \E i \in DOMAIN tasks : tasks[i].title = Run("a", 1) \o Run(" ", 1) \o Run("b", 1)

\* C21: every stored message, of role user or assistant, has a content of
\* 1 to 10000 characters
C21_MessageContentBounds ==
    \A k \in 1 .. Len(messages) :
        /\ messages[k].role \in {"user", "assistant"}
        /\ StrLen(messages[k].content) \in 1 .. MAX_MESSAGE_LENGTH

\* C22: sanitizeInput is idempotent, its result has no whitespace at either
\* end and no two adjacent whitespace characters, and "  a   b  " gives "a b"
C22_SanitizeIdempotent ==
    \A slot \in DOMAIN sends :
        sends[slot].pc # "idle"
        => LET s == sends[slot].raw
               r == sends[slot].sanitizedContent
           IN  /\ sanitizeInput(sanitizeInput(s)) = sanitizeInput(s)
               /\ sanitizeInput(r) = r
               /\ IsSanitized(r)
               /\ StrLen(r) <= StrLen(s)
               /\ s = TitleAB => r = Run("a", 1) \o Run(" ", 1) \o Run("b", 1)

\* the call on "  a   b  " stored "a b"; another input ends with a blank
\* and a carriage return
C22_Witness ==
    /\ sends[1].pc = "tasks"
    /\ sends[1].raw = TitleAB
    /\ messages[1].content = Run("a", 1) \o Run(" ", 1) \o Run("b", 1)
    /\ \E s \in SanitizeInputs :
          /\ Len(s) = MaxRuns /\ s[1].c = "a" /\ s[2].c = " " /\ s[3].c = "\r"
          /\ sanitizeInput(s) = Run("a", s[1].n)

\* C23: for a fresh user the first 2 createThread calls with no time elapsing
\* pass the rate limit, and a 3rd without delay is rejected with RateLimited
C23_ThreadBurstOfTwo ==
    [][ (Called("createThread") /\ res'.caller = "u1" /\ now = StartTime)
        => /\ nextThreadId <= 2
              => /\ res'.outcome = "Ok"
                 /\ DOMAIN threads' = DOMAIN threads \cup {nextThreadId}
           /\ nextThreadId = 3
              => /\ res'.outcome = "RateLimited"
                 /\ threads' = threads ]_vars

C23_Witness ==
    /\ res.op = "createThread" /\ res.outcome = "RateLimited"
    /\ now = StartTime
    /\ DOMAIN threads = {1, 2}
    /\ buckets["u1"]["createThread"] = 0

\* C24: a user creates 20 tasks in rapid succession without being rate
\* limited, the 21st rapid create is rate limited, and a create after a wait
\* of 60 seconds succeeds again
C24_TwentyRapidCreates ==
    [][ (Called("tasks.create") /\ res'.caller = "u1")
        => /\ (now = StartTime /\ nextTaskId <= 20) => res'.outcome = "Ok"
           /\ (now = StartTime /\ nextTaskId = 21) => res'.outcome = "RateLimited"
           /\ (now = StartTime + 60 /\ \A i \in DOMAIN tasks : tasks[i].createdAt < now)
              => res'.outcome = "Ok" ]_vars

RateLimitedNames ==
    {"tasks.create", "tasks.update", "tasks.complete", "tasks.remove",
     "createThread", "sendMessage"}

BucketOf(op) ==
    IF op \in {"createThread", "sendMessage"} THEN op ELSE TaskBucketOf(op)

\* the double r of milliseconds is at most the whole number n
AtMost(r, n) == r.num < n * r.den \/ (r.num = n * r.den /\ r.rounding <= 0)

\* no wait is longer than a period, and the number shown is at most one more
ShownSeconds == 1 .. PERIOD + 1

\* C25: a RateLimited rejection carries in its message the limiter's
\* retry-after rounded up to whole seconds: for the r milliseconds that
\* limit() answered the number shown is ceil(r / 1000), the least whole
\* number of seconds not below r, and never less than the real wait, the
\* time until the bucket holds a token (a refilled bucket whose double is
\* just below one token is rejected with 1 second shown)
C25_RetrySecondsRoundedUp ==
    [][ \A op \in RateLimitedNames, u \in Users :
            (Called(op) /\ res'.caller = u /\ res'.outcome = "RateLimited")
            => /\ \E rounding \in Roundings, shown \in ShownSeconds :
                      LET status == rateLimitStatus(BucketOf(op), u, rounding)
                          r == status.retryAfter
                      IN  /\ ~status.ok
                          /\ AtMost(r, shown * 1000)
                          /\ ~AtMost(r, (shown - 1) * 1000)
                          /\ shown * 1000 * r.den >= r.num
                          /\ res'.msg = "Rate limit exceeded. Please try again in "
                                            \o ToString(shown) \o " seconds."
               /\ buckets' = buckets ]_vars

\* u2, whose empty createTask bucket gained two thirds of a token in two
\* seconds, is told to wait 2 seconds where one second is missing: the
\* limiter answered a double just above 1000 milliseconds
C25_Witness ==
    /\ res.op = "tasks.create" /\ res.caller = "u2" /\ res.outcome = "RateLimited"
    /\ now = StartTime + 2
    /\ rateLimitStatus("createTask", "u2", 1).retryAfter
           = Millis(1000 * rateLimits["createTask"].rate, rateLimits["createTask"].rate, 1)
    /\ res.msg = "Rate limit exceeded. Please try again in 2 seconds."

MessageIds(ms) == {ms[k].id : k \in 1 .. Len(ms)}

\* C26: a task, thread or message is stored with the owner identifier of the
\* authenticated caller of the call that creates it (a message of either
\* role: the caller of sendMessage, who owns the parent thread), and no step
\* changes the owner of a task or thread, or the owner, role or thread of a
\* message
C26_OwnerSetOnceByCreator ==
    [][ /\ \A i \in DOMAIN tasks' :
              IF i \in DOMAIN tasks THEN tasks'[i].userId = tasks[i].userId
              ELSE /\ Called("tasks.create") /\ res'.id = i
                   /\ res'.caller \in Users
                   /\ tasks'[i].userId = res'.caller
        /\ \A i \in DOMAIN threads' :
              IF i \in DOMAIN threads THEN threads'[i].userId = threads[i].userId
              ELSE /\ Called("createThread") /\ res'.id = i
                   /\ res'.caller \in Users
                   /\ threads'[i].userId = res'.caller
        /\ \A j \in 1 .. Len(messages') :
              IF messages'[j].id \in MessageIds(messages)
              THEN \E k \in 1 .. Len(messages) :
                      /\ messages[k].id = messages'[j].id
                      /\ messages[k].userId = messages'[j].userId
                      /\ messages[k].role = messages'[j].role
                      /\ messages[k].threadId = messages'[j].threadId
              ELSE \E slot \in DOMAIN sends :
                      /\ sends[slot].pc \in {"save", "reply"}
                      /\ messages'[j].role
                           = (IF sends[slot].pc = "save" THEN "user" ELSE "assistant")
                      /\ sends[slot].caller \in Users
                      /\ messages'[j].userId = sends[slot].caller
                      /\ messages'[j].threadId = sends[slot].threadId
                      /\ sends[slot].thread # Undefined
                      /\ \A t \in sends[slot].thread : t.userId = sends[slot].caller
                      /\ sends[slot].threadId \in DOMAIN threads
                         => threads[sends[slot].threadId].userId = sends[slot].caller
      ]_vars

\* u1 was refused the renaming of the task u2 created and renamed, u2 having
\* got its reply in the thread it created and archived
C26_Witness ==
    /\ res.op = "tasks.update" /\ res.outcome = "Forbidden" /\ res.caller = "u1"
    /\ res.id \in DOMAIN tasks
    /\ tasks[res.id].userId = "u2" /\ tasks[res.id].title = Run("n", 1)
    /\ \E t \in DOMAIN threads :
          /\ threads[t].userId = "u2" /\ threads[t].status = "archived"
          /\ \E j, k \in 1 .. Len(messages) :
                /\ messages[j].role = "user" /\ messages[k].role = "assistant"
                /\ messages[j].userId = "u2" /\ messages[k].userId = "u2"
                /\ messages[j].threadId = t /\ messages[k].threadId = t

\* C27: a successful tasks.update stamps completedAt with the current time
\* only when the stored status was not completed and the requested one is,
\* clears it only when the stored status was completed and the requested one
\* is not, and leaves it as it was otherwise (completed on a completed task,
\* or no status supplied)
C27_StampFollowsStoredStatus ==
    [][ \A id \in TaskIds :
            (Called("tasks.update") /\ res'.id = id /\ res'.outcome = "Ok")
            => LET requested == res'.args.status
                   reopen == requested # Undefined /\ requested # Def("completed")
               IN  IF requested = Def("completed") /\ tasks[id].status # "completed"
                   THEN tasks'[id].completedAt = Def(now)
                   ELSE IF reopen /\ tasks[id].status = "completed"
                   THEN tasks'[id].completedAt = Undefined
                   ELSE tasks'[id].completedAt = tasks[id].completedAt ]_vars

\* completed again, later: the first stamp is still there
C27_Witness ==
    /\ res.op = "tasks.update" /\ res.outcome = "Ok"
    /\ res.args.status = Def("completed")
    /\ tasks[1].status = "completed"
    /\ tasks[1].completedAt = Def(StartTime)
    /\ tasks[1].updatedAt > StartTime

\* the call of this slot is the one whose result res' holds
EndsWith(slot, outcome) ==
    /\ sends[slot].pc # "idle" /\ sends'[slot].pc = "idle"
    /\ res'.op = "sendMessage" /\ res'.outcome = outcome

\* C28: a sendMessage that succeeds adds two messages to its thread and none
\* to another: the user message with the sanitized content at step 6, then,
\* the agent having replied, the assistant message with the reply verbatim
\* at step 11; it returns the ids of the two and the reply.  No other step
\* of the call adds a message
C28_TwoMessagesPerExchange ==
    [][ \A slot \in DOMAIN sends, id \in ThreadIds :
            (sends[slot].pc # "idle" /\ sends[slot].threadId = id /\ sends'[slot] # sends[slot])
            => LET call == sends[slot]
                   added == Len(messages') - Len(messages)
                   last == messages'[Len(messages')]
               IN  /\ SubSeq(messages', 1, Len(messages)) = messages
                   /\ IF call.pc = "save"
                      THEN /\ added = 1
                           /\ last.role = "user" /\ last.threadId = id
                           /\ last.content = sanitizeInput(call.raw)
                           /\ sends'[slot].userMessageId = Def(last.id)
                           /\ last.id \notin MessageIds(messages)
                      ELSE IF EndsWith(slot, "Ok")
                      THEN /\ call.pc = "reply" /\ call.agentCalled
                           /\ added = 1
                           /\ last.role = "assistant" /\ last.threadId = id
                           /\ call.aiResponse = Def(last.content)
                           /\ last.id \notin MessageIds(messages)
                           /\ res'.locals.assistantMessageId = Def(last.id)
                           /\ res'.locals.aiResponse = call.aiResponse
                           /\ res'.locals.userMessageId = call.userMessageId
                           /\ \E k \in 1 .. Len(messages) :
                                 /\ Def(messages[k].id) = call.userMessageId
                                 /\ messages[k].role = "user"
                                 /\ messages[k].threadId = id
                                 /\ messages[k].content = sanitizeInput(call.raw)
                      ELSE added = 0 ]_vars

\* both calls were in flight together, one in each thread; the one in
\* thread 2 has returned
C28_Witness ==
    /\ res.op = "sendMessage" /\ res.outcome = "Ok" /\ res.id = 2
    /\ Len(SelectSeq(messages, LAMBDA m : m.threadId = 2)) = 2
    /\ \E k \in 1 .. Len(messages) :
          /\ messages[k].role = "assistant" /\ messages[k].content = ReplyWithBlanks
          /\ k > 2 /\ messages[k - 1].threadId = 1
    /\ \E slot \in DOMAIN sends : sends[slot].pc = "agent" /\ sends[slot].threadId = 1

ErrorClasses ==
    {"Unauthenticated", "RateLimited", "InvalidInput", "NotFound", "Forbidden",
     "QuotaExceeded"}

\* C29: a task or thread mutation that is rejected (Unauthenticated,
\* RateLimited, InvalidInput, NotFound, Forbidden, QuotaExceeded) leaves the
\* stored tasks, threads and messages as they were; in particular an update
\* failing on one field writes none of the others
C29_RejectedWritesNothing ==
    [][ \A op \in MutationNames :
            (Called(op) /\ res'.outcome # "Ok")
            => /\ res'.outcome \in ErrorClasses
               /\ StoreUnchanged
               /\ deleteTrace' = deleteTrace ]_vars

\* an update to completed with a bad due date was rejected and the task is
\* as it was, u1 being at its task quota
C29_Witness ==
    /\ res.op = "tasks.update" /\ res.outcome = "InvalidInput"
    /\ res.msg = InvalidDueDate[2]
    /\ res.args.status = Def("completed")
    /\ tasks[res.id] = TaskOfU1
    /\ countTasksByUser("u1") = MAX_TASKS_PER_USER

\* C30: tasks.create and tasks.update reject with 'Invalid due date' every
\* supplied due date outside [now - 24 hours, now + 5 * 365 days] and write
\* nothing, and both accept every due date inside it
C30_DueDateWindow ==
    [][ \A op \in {"tasks.create", "tasks.update"} :
            ( /\ Called(op) /\ res'.caller = "u1"
              /\ ~Exhausted(TaskBucketOf(op), "u1")
              /\ res'.args.dueDate # Undefined )
            => \A dueDate \in res'.args.dueDate :
                  IF isValidDueDate(dueDate, now)
                  THEN /\ res'.outcome = "Ok"
                       /\ tasks'[res'.id].dueDate = Def(dueDate)
                  ELSE /\ res'.outcome = "InvalidInput"
                       /\ res'.msg = "Invalid due date"
                       /\ tasks' = tasks ]_vars

====
